---- MODULE Spec2Model ----
(***************************************************************************)
(* kubesops: secrets kept in local .env files are compared with, and       *)
(* uploaded to, the secret objects of a Kubernetes cluster.                *)
(*                                                                         *)
(* Strings that the program inspects byte by byte (entry values, registry  *)
(* credentials) are sequences of byte codes.  Entry keys, secret types and *)
(* error messages are TLA+ strings.  A value is either plain text,         *)
(* [txt |-> bytes], or the text of a JSON document, [json |-> tree], the   *)
(* tree being what encoding/json reads from or writes to that text.        *)
(***************************************************************************)
EXTENDS Integers, Sequences, FiniteSets, TLC

(***************************************************************************)
(* Bounds of the model.                                                    *)
(***************************************************************************)
MaxLen == 2       \* longest username / password drawn for the codec
MaxAuths == 2     \* most registries under "auths" in a drawn wire document
MaxFiles == 2     \* most .env files under the root path
MaxFaults == 1    \* most transport faults injected into one invocation

EmptyMap == [k \in {} |-> [txt |-> <<>>]]

Text(s) == [txt |-> s]

Colon == <<58>>

Alphabet == {117, 58}

Strs(n) == UNION {[1..k -> Alphabet] : k \in 0..n}

OpaqueType == "Opaque"

DockerType == "kubernetes.io/dockerconfigjson"

DockerConfigKey == ".dockerconfigjson"

TlsType == "kubernetes.io/tls"

BasicAuthType == "kubernetes.io/basic-auth"

SshAuthType == "kubernetes.io/ssh-auth"

\* a type string that mapSecretType passes through unchanged
CustomType == "example.com/custom"

\* the alias of the docker-registry type, as a type string of its own
DockerAlias == "docker-registry"

DockerKeys == {"docker-server", "docker-username", "docker-password", "docker-email"}

(***************************************************************************)
(* base64.StdEncoding.EncodeToString: three bytes become four sextets,     *)
(* each written as its letter of the standard alphabet; a last group of    *)
(* one or two bytes is padded with '='.                                    *)
(***************************************************************************)
Base64Char(v) ==
    IF v < 26 THEN 65 + v
    ELSE IF v < 52 THEN 97 + (v - 26)
    ELSE IF v < 62 THEN 48 + (v - 52)
    ELSE IF v = 62 THEN 43
    ELSE 47

ByteAt(s, i) == IF i <= Len(s) THEN s[i] ELSE 0

Pow64(p) == IF p = 0 THEN 1 ELSE IF p = 1 THEN 64 ELSE IF p = 2 THEN 4096 ELSE 262144

Base64(s) ==
    LET groups == (Len(s) + 2) \div 3
        Group(g) == ByteAt(s, 3 * g + 1) * 65536 + ByteAt(s, 3 * g + 2) * 256
                      + ByteAt(s, 3 * g + 3)
    IN  [j \in 1..(4 * groups) |->
            LET g == (j - 1) \div 4
                p == (j - 1) % 4
            IN  IF p >= 2 /\ 3 * g + p > Len(s)
                THEN 61
                ELSE Base64Char((Group(g) \div Pow64(3 - p)) % 64)]

(***************************************************************************)
(* The JSON documents of .dockerconfigjson (type DockerConfig/DockerAuth). *)
(* A document is not JSON at all ("invalid"), the JSON null, a JSON value  *)
(* that is no object ("scalar": a number, a string, an array), or an       *)
(* object; its "auths" member is absent, null, no object, or an object of  *)
(* registry entries.  An entry has typed = FALSE when one of its members   *)
(* has a JSON type the Go field cannot take.  hasEmail says whether the    *)
(* "email" member is written (omitempty).                                  *)
(***************************************************************************)
NoAuths == [kind |-> "absent", entries |-> {}]

DockerAuth(server, username, password, email, auth) ==
    [server |-> server, username |-> username, password |-> password,
     email |-> email, hasEmail |-> email # <<>>, auth |-> auth, typed |-> TRUE]

JsonObject(entries) ==
    [json |-> [kind |-> "object", auths |-> [kind |-> "object", entries |-> entries]]]

Has(values, key) == key \in DOMAIN values

\* values[key] of a Go map: the zero value "" for a missing key
Lookup(values, key) == IF Has(values, key) THEN values[key].txt ELSE <<>>

Failure(msg) == [err |-> msg, data |-> EmptyMap]

Success(data) == [err |-> "none", data |-> data]

\* what parseSecretContent returned
NoParseError == [msg |-> "none", lineNum |-> 0, line |-> <<>>]

InvalidLine(lineNum, line) == [msg |-> "invalid line", lineNum |-> lineNum, line |-> line]

Parsed(err, data, secretType) == [err |-> err, data |-> data, type |-> secretType]

\* what LoadSecretFile returns for a file at secrets/<namespace>/<name>: the
\* error, or the type and the entries of the secret
Loaded(err, secretType, data) == [err |-> err, type |-> secretType, data |-> data]

\* what an operation returned (err, the count) and what it printed
Result(err, differences, lines) == [err |-> err, differences |-> differences, lines |-> lines]

\* BuildDockerConfigJSON with docker-password checked before docker-username
BuildDockerConfigJSON_PasswordFirst(values) ==
    LET server == Lookup(values, "docker-server")
        username == Lookup(values, "docker-username")
        password == Lookup(values, "docker-password")
        email == Lookup(values, "docker-email")
        auth == Base64(username \o Colon \o password)
    IN  IF ~Has(values, "docker-server") \/ server = <<>>
        THEN [err |-> "docker-server is required for docker-registry secrets",
              value |-> Text(<<>>)]
        ELSE IF ~Has(values, "docker-password") \/ password = <<>>
        THEN [err |-> "docker-password is required for docker-registry secrets",
              value |-> Text(<<>>)]
        ELSE IF ~Has(values, "docker-username") \/ username = <<>>
        THEN [err |-> "docker-username is required for docker-registry secrets",
              value |-> Text(<<>>)]
        ELSE [err |-> "none",
              value |-> JsonObject({DockerAuth(server, username, password, email, auth)})]

BuildDockerConfigJSON(values) ==
    LET server == Lookup(values, "docker-server")
        username == Lookup(values, "docker-username")
        password == Lookup(values, "docker-password")
        email == Lookup(values, "docker-email")
        auth == Base64(username \o Colon \o password)
    IN  IF ~Has(values, "docker-server") \/ server = <<>>
        THEN [err |-> "docker-server is required for docker-registry secrets",
              value |-> Text(<<>>)]
        ELSE IF ~Has(values, "docker-username") \/ username = <<>>
        THEN [err |-> "docker-username is required for docker-registry secrets",
              value |-> Text(<<>>)]
        ELSE IF ~Has(values, "docker-password") \/ password = <<>>
        THEN [err |-> "docker-password is required for docker-registry secrets",
              value |-> Text(<<>>)]
        ELSE [err |-> "none",
              value |-> JsonObject({DockerAuth(server, username, password, email, auth)})]

(***************************************************************************)
(* json.Unmarshal into a DockerConfig: a syntax error for text that is not *)
(* JSON, a type error for a value of the wrong shape; null and a missing   *)
(* or null "auths" leave the map nil.                                      *)
(***************************************************************************)
UnmarshalFails(doc) ==
    \/ doc.kind = "invalid"
    \/ doc.kind = "scalar"
    \/ doc.kind = "object" /\ doc.auths.kind = "scalar"
    \/ doc.kind = "object" /\ doc.auths.kind = "object"
         /\ \E e \in doc.auths.entries : ~e.typed

UnmarshalAuths(doc) ==
    IF doc.kind = "object" /\ doc.auths.kind = "object" THEN doc.auths.entries ELSE {}

\* DockerEntries without the test "auth.Email != ''": docker-email always set
DockerEntries_AlwaysEmail(e) ==
    [k \in DockerKeys |->
        IF k = "docker-server" THEN Text(e.server)
        ELSE IF k = "docker-username" THEN Text(e.username)
        ELSE IF k = "docker-password" THEN Text(e.password)
        ELSE Text(IF e.hasEmail THEN e.email ELSE <<>>)]

\* the entries read from registry entry e (lines 84-92)
DockerEntries(e) ==
    LET email == IF e.hasEmail THEN e.email ELSE <<>>
        base == [k \in {"docker-server", "docker-username", "docker-password"} |->
                    IF k = "docker-server" THEN Text(e.server)
                    ELSE IF k = "docker-username" THEN Text(e.username)
                    ELSE Text(e.password)]
    IN  IF email # <<>>
        THEN [k \in DOMAIN base \cup {"docker-email"} |->
                 IF k = "docker-email" THEN Text(email) ELSE base[k]]
        ELSE base

\* ParseDockerConfigJSON without the test "len(config.Auths) == 0": the zero
\* DockerAuth is what the range leaves behind
ParseDockerConfigJSON_NoEmptyCheck(v) ==
    IF ~Has(v, "json") \/ UnmarshalFails(v.json)
    THEN {Failure("failed to unmarshal docker config")}
    ELSE IF UnmarshalAuths(v.json) = {}
    THEN {Success(DockerEntries(DockerAuth(<<>>, <<>>, <<>>, <<>>, <<>>)))}
    ELSE {Success(DockerEntries(e)) : e \in UnmarshalAuths(v.json)}

(***************************************************************************)
(* ParseDockerConfigJSON returns the entries of the registry that the      *)
(* range over the Go map yields first; the order of that iteration is not  *)
(* specified, so the operator is the set of the results a run can return.  *)
(***************************************************************************)
ParseDockerConfigJSON(v) ==
    IF ~Has(v, "json") \/ UnmarshalFails(v.json)
    THEN {Failure("failed to unmarshal docker config")}
    ELSE IF UnmarshalAuths(v.json) = {}
    THEN {Failure("no auths found in docker config")}
    ELSE {Success(DockerEntries(e)) : e \in UnmarshalAuths(v.json)}

\* ToKubernetesData with the docker-registry codec applied to every type
\* but Opaque
ToKubernetesData_CodecUnlessOpaque(type, data) ==
    IF type # OpaqueType
    THEN LET built == BuildDockerConfigJSON(data)
         IN  IF built.err # "none"
             THEN Failure(built.err)
             ELSE Success([k \in {DockerConfigKey} |-> built.value])
    ELSE Success(data)

ToKubernetesData(type, data) ==
    IF type = DockerType
    THEN LET built == BuildDockerConfigJSON(data)
         IN  IF built.err # "none"
             THEN Failure(built.err)
             ELSE Success([k \in {DockerConfigKey} |-> built.value])
    ELSE Success(data)

FromKubernetesData(secretType, k8sData) ==
    IF secretType = DockerType
    THEN IF Has(k8sData, DockerConfigKey)
         THEN ParseDockerConfigJSON(k8sData[DockerConfigKey])
         ELSE {Failure("docker-registry secret missing .dockerconfigjson key")}
    ELSE {Success(k8sData)}

(***************************************************************************)
(* The local secret files and the remote store.                           *)
(*                                                                         *)
(* A file is what LoadSecretFile makes of it: the secret it holds, or a    *)
(* failure (unreadable, SOPS decryption failed, a line without '=', a path *)
(* that is not <root>/<namespace>/<name>.env).                             *)
(***************************************************************************)
VARIABLES
    root,            \* the root path: "missing", "walkfail" or "dir"
    files,           \* the .env files under the root, in walk order
    kube,            \* whether getKubeConfig finds a usable configuration
    store,           \* the cluster: secret id -> [exists, type, data]
    pc,              \* where the invocation is
    cmd,             \* main: the command
    fForce,          \* main: the -force flag
    fDoit,           \* main: the -doit flag
    uForce,          \* upload: its force parameter
    uDoit,           \* upload: its doit parameter
    secrets,         \* upload: the loaded secrets
    idx,             \* upload: secrets processed so far
    secretsChanged,  \* upload: counter
    keysChanged,     \* upload: counter
    errors,          \* upload: the errors slice
    uRet,            \* upload: the returned error ("nil" for none)
    exitCode,        \* main: the exit code, -1 while running
    faults,          \* transport faults injected so far
    log,             \* history: one record per processed secret
    calls,           \* history: the store's API calls, in order
    prior,           \* driver: the log of the invocation before this one
    summaries,       \* history: idx at each emission of the summary
    cType,           \* codec: the secret type
    cEntries,        \* codec: the canonical entries given
    cWire,           \* codec: the result of ToKubernetesData, or a wire map given
    cBack,           \* codec: the result of FromKubernetesData
    cAgain,          \* codec: the result of a second FromKubernetesData of cWire
    cPc,             \* codec: "off", "in", "given", "wired", "failed", "round",
                     \*        "parsed", "twice"
    dVerbose,        \* diff: the -verbose flag
    dA,              \* diff: the first entry map (data1, onsite)
    dB,              \* diff: the second entry map (data2, remote)
    dSet1,           \* diff: the .env files under path1
    dSet2,           \* diff: the .env files under path2
    dOut,            \* diff: what the operation returned and printed
    dSwap,           \* diff: the same with the two arguments exchanged
    dPc,             \* diff: "off", "entries", "sets", "secret", then the operation done
    pContent,        \* parser: the lines of the plaintext
    pOut,            \* parser: what parseSecretContent returned
    pEnv,            \* parser: the environment of the process
    pGiven,          \* parser: what the plaintext was made from
    pLoaded,         \* parser: what LoadSecretFile returned
    pPc              \* parser: "off", "towrite", "in", "parsed"

driverVars == <<root, files, kube, store, pc, cmd, fForce, fDoit, uForce, uDoit, secrets, idx,
                secretsChanged, keysChanged, errors, uRet, exitCode, faults,
                log, calls, prior, summaries>>

codecVars == <<cType, cEntries, cWire, cBack, cAgain, cPc>>

diffVars == <<dVerbose, dA, dB, dSet1, dSet2, dOut, dSwap, dPc>>

parseVars == <<pContent, pOut, pEnv, pGiven, pLoaded, pPc>>

vars == <<driverVars, codecVars, diffVars, parseVars>>

Secret(ns, name, type, data) ==
    [namespace |-> ns, name |-> name, type |-> type, data |-> data, loads |-> "ok"]

Id(secret) == <<secret.namespace, secret.name>>

OpaqueData == [k \in {"K", "L"} |-> IF k = "K" THEN Text(<<117>>) ELSE Text(<<58, 117>>)]

RegistryData ==
    [k \in {"docker-server", "docker-username", "docker-password"} |->
        IF k = "docker-server" THEN Text(<<117, 58>>) ELSE Text(<<117>>)]

FileA == Secret("test", "a", OpaqueType, OpaqueData)

FileD == Secret("test", "d", DockerType, RegistryData)

\* a docker-registry secret without docker-password
FileE == Secret("live", "e", DockerType,
                [k \in {"docker-server", "docker-username"} |-> RegistryData[k]])

\* a docker-registry secret whose file has the line "docker-email="
FileG == Secret("live", "g", DockerType,
                [k \in DOMAIN RegistryData \cup {"docker-email"} |->
                    IF k = "docker-email" THEN Text(<<>>) ELSE RegistryData[k]])

LoadFailures == {"read", "sops", "parse", "path"}

FileF(why) == [Secret("live", "f", OpaqueType, EmptyMap) EXCEPT !.loads = why]

FileUniverse == {FileA, FileD, FileE, FileG} \cup {FileF(why) : why \in LoadFailures}

Ids == {Id(f) : f \in FileUniverse}

Absent == [exists |-> FALSE, type |-> OpaqueType, data |-> EmptyMap]

Present(type, data) == [exists |-> TRUE, type |-> type, data |-> data]

\* what the cluster may hold for each secret before the invocation
RemoteChoices(id) ==
    IF id = Id(FileA)
    THEN {Absent, Present(OpaqueType, OpaqueData),
          Present(OpaqueType, [k \in {"K", "M"} |-> Text(<<58>>)])}
    ELSE IF id = Id(FileD)
    THEN {Absent, Present(DockerType, ToKubernetesData(DockerType, RegistryData).data),
          Present(DockerType,
                  [k \in {DockerConfigKey} |-> [json |-> [kind |-> "invalid", auths |-> NoAuths]]])}
    ELSE {Absent}

FileSeqs ==
    {q \in UNION {[1..n -> FileUniverse] : n \in 0..MaxFiles} :
        \A i, j \in DOMAIN q : i # j => Id(q[i]) # Id(q[j])}

CodecOff ==
    /\ cType = OpaqueType
    /\ cEntries = EmptyMap
    /\ cWire = Success(EmptyMap)
    /\ cBack = Success(EmptyMap)
    /\ cAgain = Success(EmptyMap)
    /\ cPc = "off"

DiffOff ==
    /\ dVerbose = FALSE
    /\ dA = EmptyMap
    /\ dB = EmptyMap
    /\ dSet1 = <<>>
    /\ dSet2 = <<>>
    /\ dOut = Result("none", 0, <<>>)
    /\ dSwap = Result("none", 0, <<>>)
    /\ dPc = "off"

ParseOff ==
    /\ pContent = <<>>
    /\ pOut = Parsed(NoParseError, EmptyMap, OpaqueType)
    /\ pEnv = EmptyMap
    /\ pGiven = [kind |-> "lines"]
    /\ pLoaded = Loaded("none", OpaqueType, EmptyMap)
    /\ pPc = "off"

Init ==
    /\ root \in {"missing", "walkfail", "dir"}
    /\ files \in IF root = "dir" THEN FileSeqs ELSE {<<>>}
    /\ kube \in BOOLEAN
    /\ store \in [Ids -> UNION {RemoteChoices(id) : id \in Ids}]
    /\ \A id \in Ids : store[id] \in RemoteChoices(id)
    /\ pc = "main"
    /\ cmd = ""
    /\ fForce = FALSE
    /\ fDoit = FALSE
    /\ uForce = FALSE
    /\ uDoit = FALSE
    /\ secrets = <<>>
    /\ idx = 0
    /\ secretsChanged = 0
    /\ keysChanged = 0
    /\ errors = <<>>
    /\ uRet = "nil"
    /\ exitCode = -1
    /\ faults = 0
    /\ log = <<>>
    /\ calls = <<>>
    /\ prior = <<>>
    /\ summaries = <<>>
    /\ CodecOff
    /\ DiffOff
    /\ ParseOff

(***************************************************************************)
(* The store client.                                                       *)
(***************************************************************************)
NotFound == "error reading secret: not found"

Transport == "error reading secret: transport failure"

NoConfig == "error getting Kubernetes config"

ConversionFailed == "conversion failed"

secretRead(st, kubeOk, id, fault) ==
    IF ~kubeOk THEN Failure(NoConfig)
    ELSE IF fault THEN Failure(Transport)
    ELSE IF ~st[id].exists THEN Failure(NotFound)
    ELSE Success(st[id].data)

Call(op, id) == [op |-> op, id |-> id]

\* Get, then Create when Get returned any error, Update otherwise
secretWrite(st, kubeOk, secret, values, getFault, mutFault) ==
    LET id == Id(secret)
        getErr == getFault \/ ~st[id].exists
        written == [st EXCEPT ![id] = Present(secret.type, values)]
    IN  IF ~kubeOk
        THEN [err |-> NoConfig, store |-> st, calls |-> <<>>]
        ELSE IF getErr
        THEN IF mutFault \/ st[id].exists
             THEN [err |-> "error creating secret", store |-> st,
                   calls |-> <<Call("Get", id), Call("Create", id)>>]
             ELSE [err |-> "none", store |-> written,
                   calls |-> <<Call("Get", id), Call("Create", id)>>]
        ELSE IF mutFault
             THEN [err |-> "error updating secret", store |-> st,
                   calls |-> <<Call("Get", id), Call("Update", id)>>]
             ELSE [err |-> "none", store |-> written,
                   calls |-> <<Call("Get", id), Call("Update", id)>>]

(***************************************************************************)
(* Loading.                                                                *)
(***************************************************************************)
LoadSecretFile(file) ==
    IF file.loads = "ok"
    THEN [err |-> "none", secret |-> file]
    ELSE [err |-> file.loads, secret |-> file]

\* the first file that fails to load ends the load with its error
LoadSecretsFromPath(rootState, fs) ==
    IF rootState = "missing"
    THEN [err |-> "path does not exist", secrets |-> <<>>]
    ELSE IF rootState = "walkfail"
    THEN [err |-> "failed to walk directory", secrets |-> <<>>]
    ELSE IF \E i \in DOMAIN fs : LoadSecretFile(fs[i]).err # "none"
    THEN [err |-> "failed to load", secrets |-> <<>>]
    ELSE [err |-> "none", secrets |-> [i \in DOMAIN fs |-> LoadSecretFile(fs[i]).secret]]

(***************************************************************************)
(* Local against remote.                                                   *)
(***************************************************************************)
FromOnsiteSecret(secret) == Success(secret.data)

FromRemoteSecret(st, kubeOk, secret, fault) ==
    LET read == secretRead(st, kubeOk, Id(secret), fault)
    IN  IF read.err # "none"
        THEN {read}
        ELSE {IF c.err # "none" THEN Failure(ConversionFailed) ELSE c :
                 c \in FromKubernetesData(secret.type, read.data)}

\* Changed without the test for a key that the first map lacks
Changed_OnlyOneWay(onsite, remote, key) ==
    \/ ~Has(remote, key)
    \/ Has(onsite, key) /\ onsite[key] # remote[key]

Changed(onsite, remote, key) ==
    \/ ~Has(onsite, key)
    \/ ~Has(remote, key)
    \/ onsite[key] # remote[key]

(***************************************************************************)
(* Ordering of strings.  Go compares strings byte by byte; Bytes spells    *)
(* the entry keys and secret names of the model.                           *)
(***************************************************************************)
Bytes(k) ==
    CASE k = "" -> <<>>
      [] k = "K" -> <<75>>
      [] k = "tls" -> <<116, 108, 115>>
      [] k = "basic-auth" -> <<98, 97, 115, 105, 99, 45, 97, 117, 116, 104>>
      [] k = "ssh-auth" -> <<115, 115, 104, 45, 97, 117, 116, 104>>
      [] k = "example.com/custom" ->
             <<101, 120, 97, 109, 112, 108, 101, 46, 99, 111, 109, 47, 99, 117, 115, 116, 111, 109>>
      [] k = "KL" -> <<75, 76>>
      [] k = "L" -> <<76>>
      [] k = "M" -> <<77>>
      [] k = "k" -> <<107>>
      [] k = "note" -> <<110, 111, 116, 101>>
      [] k = ".dockerconfigjson" ->
             <<46, 100, 111, 99, 107, 101, 114, 99, 111, 110, 102, 105, 103, 106, 115, 111, 110>>
      [] k = "docker-registry" ->
             <<100, 111, 99, 107, 101, 114, 45, 114, 101, 103, 105, 115, 116, 114, 121>>
      [] k = "docker-server" -> <<100, 111, 99, 107, 101, 114, 45, 115, 101, 114, 118, 101, 114>>
      [] k = "docker-username" ->
             <<100, 111, 99, 107, 101, 114, 45, 117, 115, 101, 114, 110, 97, 109, 101>>
      [] k = "docker-password" ->
             <<100, 111, 99, 107, 101, 114, 45, 112, 97, 115, 115, 119, 111, 114, 100>>
      [] k = "docker-email" -> <<100, 111, 99, 107, 101, 114, 45, 101, 109, 97, 105, 108>>
      [] k = "f" -> <<102>>
      [] k = "live" -> <<108, 105, 118, 101>>
      [] k = "test" -> <<116, 101, 115, 116>>
      [] k = "x" -> <<120>>
      [] k = "xy" -> <<120, 121>>
      [] k = "y" -> <<121>>

RECURSIVE LessBytes(_, _)
\* a < b on Go strings
LessBytes(a, b) ==
    IF Len(b) = 0 THEN FALSE
    ELSE IF Len(a) = 0 THEN TRUE
    ELSE IF a[1] # b[1] THEN a[1] < b[1]
    ELSE LessBytes(Tail(a), Tail(b))

Less(x, y) == LessBytes(Bytes(x), Bytes(y))

RECURSIVE SortStrings_Descending(_)
\* SortStrings with the comparison turned round
SortStrings_Descending(S) ==
    IF S = {} THEN <<>>
    ELSE LET m == CHOOSE x \in S : \A y \in S \ {x} : Less(y, x)
         IN  <<m>> \o SortStrings_Descending(S \ {m})

RECURSIVE SortStrings(_)
\* sort.Strings applied to the keys of a map, which are pairwise different
SortStrings(S) ==
    IF S = {} THEN <<>>
    ELSE LET m == CHOOSE x \in S : \A y \in S \ {x} : Less(x, y)
         IN  <<m>> \o SortStrings(S \ {m})

(***************************************************************************)
(* Rendering of values.                                                    *)
(***************************************************************************)
TruncateAt == 10

\* "..."
Ellipsis == <<46, 46, 46>>

\* "missing"
MissingText == <<109, 105, 115, 115, 105, 110, 103>>

truncateValue(s, maxLen) ==
    IF Len(s) <= maxLen THEN s ELSE SubSeq(s, 1, maxLen) \o Ellipsis

\* "[" + s + "]"
Bracketed(s) == <<91>> \o s \o <<93>>

formatValue(val, exists, verbose) ==
    IF ~exists THEN MissingText
    ELSE IF verbose THEN Bracketed(val)
    ELSE Bracketed(truncateValue(val, TruncateAt))

\* data[key] of a Go map: the zero value and false for a key it does not hold
ValueOf(data, key) == IF Has(data, key) THEN data[key].txt ELSE <<>>

(***************************************************************************)
(* The printed lines.  A line is the record of what Printf was given:      *)
(*   key    "<key>" or "<secretName>/<key>"                                *)
(*   value  "  <label>: <text>"                                            *)
(*   only   "secret <key>: only in <label>"                                *)
(*   total  "<count> difference(s)"                                        *)
(***************************************************************************)
Line(kind, name, key, label, text, count) ==
    [kind |-> kind, name |-> name, key |-> key, label |-> label, text |-> text, count |-> count]

KeyLine(name, key) == Line("key", name, key, "", <<>>, 0)

ValueLine(key, label, text) == Line("value", "", key, label, text, 0)

RECURSIVE Flatten(_)
Flatten(seqs) == IF seqs = <<>> THEN <<>> ELSE Head(seqs) \o Flatten(Tail(seqs))

\* CountChanged stopping at the first key that differs
CountChanged_AtMostOne(keys, data1, data2) ==
    IF \E i \in DOMAIN keys : Changed(data1, data2, keys[i]) THEN 1 ELSE 0

RECURSIVE CountChanged(_, _, _)
\* the increments of "differences" over the loop on the sorted keys
CountChanged(keys, data1, data2) ==
    IF keys = <<>> THEN 0
    ELSE (IF Changed(data1, data2, Head(keys)) THEN 1 ELSE 0)
         + CountChanged(Tail(keys), data1, data2)

compareSecretsLocal(ns1, ns2, data1, data2, verbose) ==
    LET keys == SortStrings(DOMAIN data1 \cup DOMAIN data2)
        printed(key) ==
            <<KeyLine("", key)>>
            \o IF Changed(data1, data2, key)
               THEN <<ValueLine(key, ns1,
                                formatValue(ValueOf(data1, key), Has(data1, key), verbose)),
                      ValueLine(key, ns2,
                                formatValue(ValueOf(data2, key), Has(data2, key), verbose))>>
               ELSE <<>>
    IN  [differences |-> CountChanged(keys, data1, data2),
         lines |-> Flatten([i \in DOMAIN keys |-> printed(keys[i])])]

OnlyLine(name, path) == Line("only", "", name, path, <<>>, 0)

TotalLine(count) == Line("total", "", "", "", <<>>, count)

\* map[s.Name] = s over the slice: the last secret of each name stays
ByName(loaded, name) ==
    LET at == {i \in DOMAIN loaded : loaded[i].name = name}
    IN  loaded[CHOOSE i \in at : \A j \in at : j <= i]

Names(loaded) == {loaded[i].name : i \in DOMAIN loaded}

\* Sum counting one for every name
Sum_CountsNames(numbers) == Len(numbers)

RECURSIVE Sum(_)
Sum(numbers) == IF numbers = <<>> THEN 0 ELSE Head(numbers) + Sum(Tail(numbers))

\* diffLocalVsLocal without the branch for two single files
diffLocalVsLocal_NoSingleBranch(path1, path2, fs1, fs2, verbose) ==
    LET load1 == LoadSecretsFromPath("dir", fs1)
        load2 == LoadSecretsFromPath("dir", fs2)
        secrets1 == load1.secrets
        secrets2 == load2.secrets
        keys == SortStrings(Names(secrets1) \cup Names(secrets2))
        step(key) ==
            IF key \notin Names(secrets1)
            THEN [differences |-> 1, lines |-> <<OnlyLine(key, path2)>>]
            ELSE IF key \notin Names(secrets2)
            THEN [differences |-> 1, lines |-> <<OnlyLine(key, path1)>>]
            ELSE LET s1 == ByName(secrets1, key)
                     s2 == ByName(secrets2, key)
                 IN  compareSecretsLocal(s1.namespace, s2.namespace, s1.data, s2.data, verbose)
        steps == [i \in DOMAIN keys |-> step(keys[i])]
        total == Sum([i \in DOMAIN keys |-> steps[i].differences])
    IN  IF load1.err # "none" THEN Result("failed to load secrets from path1", 0, <<>>)
        ELSE IF load2.err # "none" THEN Result("failed to load secrets from path2", 0, <<>>)
        ELSE Result("none", total,
                    Flatten([i \in DOMAIN keys |-> steps[i].lines]) \o <<TotalLine(total)>>)

\* fs1, fs2: the .env files under the two paths
diffLocalVsLocal(path1, path2, fs1, fs2, verbose) ==
    LET load1 == LoadSecretsFromPath("dir", fs1)
        load2 == LoadSecretsFromPath("dir", fs2)
        secrets1 == load1.secrets
        secrets2 == load2.secrets
        keys == SortStrings(Names(secrets1) \cup Names(secrets2))
        step(key) ==
            IF key \notin Names(secrets1)
            THEN [differences |-> 1, lines |-> <<OnlyLine(key, path2)>>]
            ELSE IF key \notin Names(secrets2)
            THEN [differences |-> 1, lines |-> <<OnlyLine(key, path1)>>]
            ELSE LET s1 == ByName(secrets1, key)
                     s2 == ByName(secrets2, key)
                 IN  compareSecretsLocal(s1.namespace, s2.namespace, s1.data, s2.data, verbose)
        steps == [i \in DOMAIN keys |-> step(keys[i])]
        total == Sum([i \in DOMAIN keys |-> steps[i].differences])
    IN  IF load1.err # "none" THEN Result("failed to load secrets from path1", 0, <<>>)
        ELSE IF load2.err # "none" THEN Result("failed to load secrets from path2", 0, <<>>)
        ELSE IF Len(secrets1) = 1 /\ Len(secrets2) = 1
        THEN LET s1 == secrets1[1]
                 s2 == secrets2[1]
                 single == compareSecretsLocal(s1.namespace, s2.namespace,
                                               s1.data, s2.data, verbose)
             IN  Result("none", single.differences,
                        single.lines \o <<TotalLine(single.differences)>>)
        ELSE Result("none", total,
                    Flatten([i \in DOMAIN keys |-> steps[i].lines]) \o <<TotalLine(total)>>)

(***************************************************************************)
(* Manifests and secret files.                                             *)
(***************************************************************************)
HexDigit(n) == IF n < 10 THEN 48 + n ELSE 87 + n

\* one byte of the operand of %q (strconv.Quote); bytes from 128 up are
\* taken to belong to printable characters, which are written as they are
QuoteByte(b) ==
    IF b = 34 THEN <<92, 34>>
    ELSE IF b = 92 THEN <<92, 92>>
    ELSE IF b = 7 THEN <<92, 97>>
    ELSE IF b = 8 THEN <<92, 98>>
    ELSE IF b = 12 THEN <<92, 102>>
    ELSE IF b = 10 THEN <<92, 110>>
    ELSE IF b = 13 THEN <<92, 114>>
    ELSE IF b = 9 THEN <<92, 116>>
    ELSE IF b = 11 THEN <<92, 118>>
    ELSE IF b < 32 \/ b = 127 THEN <<92, 120, HexDigit(b \div 16), HexDigit(b % 16)>>
    ELSE <<b>>

Quote(s) == <<34>> \o Flatten([i \in DOMAIN s |-> QuoteByte(s[i])]) \o <<34>>

\* %q of a value: of its bytes, or of the serialised JSON document
QuotedValue(value) ==
    IF Has(value, "txt") THEN [quoted |-> Quote(value.txt)] ELSE [quotedJson |-> value.json]

\* a line of a manifest: "---", the lines from apiVersion to stringData of
\* one secret, "  <key>: <quoted value>", or "No secrets found"
ManifestLine(kind, secret, key, value) ==
    [kind |-> kind, name |-> secret.name, namespace |-> secret.namespace,
     type |-> secret.type, key |-> key, value |-> value]

RECURSIVE ManifestOf(_, _)
\* the loop of handleManifest from secret i on
ManifestOf(loaded, i) ==
    IF i > Len(loaded) THEN Result("none", 0, <<>>)
    ELSE LET secret == loaded[i]
             k8s == ToKubernetesData(secret.type, secret.data)
             keys == SortStrings(DOMAIN k8s.data)
             rest == ManifestOf(loaded, i + 1)
             separator == IF i > 1 THEN <<ManifestLine("separator", secret, "", Text(<<>>))>>
                          ELSE <<>>
         IN  IF k8s.err # "none"
             THEN Result("failed to convert", 0, separator)
             ELSE Result(rest.err, 0,
                         separator
                         \o <<ManifestLine("header", secret, "", Text(<<>>))>>
                         \o [j \in DOMAIN keys |->
                                ManifestLine("stringData", secret, keys[j],
                                             QuotedValue(k8s.data[keys[j]]))]
                         \o rest.lines)

\* fs: the .env files under the path
handleManifest(fs) ==
    LET load == LoadSecretsFromPath("dir", fs)
    IN  IF load.err # "none" THEN Result("failed to load secrets", 0, <<>>)
        ELSE IF Len(load.secrets) = 0
        THEN Result("none", 0, <<[kind |-> "none"]>>)
        ELSE ManifestOf(load.secrets, 1)

RECURSIVE ExchangeSort(_, _, _)
\* the two loops of WriteSecretFile, lines 282-288, at positions i < j
ExchangeSort(keys, i, j) ==
    IF i > Len(keys) THEN keys
    ELSE IF j > Len(keys) THEN ExchangeSort(keys, i + 1, i + 2)
    ELSE IF Less(keys[j], keys[i])
    THEN ExchangeSort([keys EXCEPT ![i] = keys[j], ![j] = keys[i]], i, j + 1)
    ELSE ExchangeSort(keys, i, j + 1)

TypeAlias(secretType) ==
    IF secretType = DockerType THEN DockerAlias
    ELSE IF secretType = TlsType THEN "tls"
    ELSE IF secretType = BasicAuthType THEN "basic-auth"
    ELSE IF secretType = SshAuthType THEN "ssh-auth"
    ELSE secretType

\* strings.ContainsAny(value, " \t\n\r\"'$")
NeedsQuotes(value) == \E i \in DOMAIN value : value[i] \in {32, 9, 10, 13, 34, 39, 36}

\* the lines WriteSecretFile writes; order is the order in which the range
\* over the map yields the keys
WriteSecretFile(secretType, data, order) ==
    LET keys == ExchangeSort(order, 1, 2)
        comment == IF secretType # OpaqueType /\ secretType # "generic"
                   THEN <<[kind |-> "type", alias |-> TypeAlias(secretType)]>>
                   ELSE <<>>
    IN  comment \o
        [i \in DOMAIN keys |->
            [kind |-> "entry", key |-> keys[i],
             text |-> IF NeedsQuotes(data[keys[i]].txt)
                      THEN Quote(data[keys[i]].txt)
                      ELSE data[keys[i]].txt]]

\* the orders in which a range over a Go map can yield the keys
RangeOrders(data) ==
    {q \in [1..Cardinality(DOMAIN data) -> DOMAIN data] :
        \A i, j \in DOMAIN q : i # j => q[i] # q[j]}

(***************************************************************************)
(* Parsing of plaintext.  The content is the sequence of the lines that    *)
(* bufio.Scanner yields, each a sequence of bytes.                         *)
(***************************************************************************)
\* the white space of strings.TrimSpace, as far as it is one byte long
Space == {9, 10, 11, 12, 13, 32}

RECURSIVE TrimLeft(_)
TrimLeft(s) == IF s # <<>> /\ Head(s) \in Space THEN TrimLeft(Tail(s)) ELSE s

RECURSIVE TrimRight(_)
TrimRight(s) ==
    IF s # <<>> /\ s[Len(s)] \in Space THEN TrimRight(SubSeq(s, 1, Len(s) - 1)) ELSE s

TrimSpace(s) == TrimRight(TrimLeft(s))

HasPrefix(s, prefix) == Len(s) >= Len(prefix) /\ SubSeq(s, 1, Len(prefix)) = prefix

\* "#"
Hash == <<35>>

\* "type"
TypeWord == <<116, 121, 112, 101>>

\* the string that the bytes of a key or of a type spell
NameOf(bytes) ==
    CHOOSE k \in {"", "K", "KL", "L", "tls", "docker-registry", "basic-auth", "ssh-auth",
                  "example.com/custom"} :
        Bytes(k) = bytes

\* the submatch of ^#\s*type\s*=\s*(.+) in a trimmed line, trimmed; <<>>
\* without a match
extractTypeFromComment(line) ==
    IF ~HasPrefix(line, Hash) THEN <<>>
    ELSE LET afterHash == TrimLeft(Tail(line))
         IN  IF ~HasPrefix(afterHash, TypeWord) THEN <<>>
             ELSE LET afterWord == TrimLeft(SubSeq(afterHash, 5, Len(afterHash)))
                  IN  IF ~HasPrefix(afterWord, <<61>>) THEN <<>>
                      ELSE TrimSpace(Tail(afterWord))

mapSecretType(secretType) ==
    IF secretType = "docker-registry" THEN DockerType
    ELSE IF secretType = "tls" THEN TlsType
    ELSE IF secretType = "basic-auth" THEN BasicAuthType
    ELSE IF secretType = "ssh-auth" THEN SshAuthType
    ELSE IF secretType \in {"generic", "opaque", ""} THEN OpaqueType
    ELSE secretType

RECURSIVE SplitN2_NoLimit(_)
\* strings.Split(line, "="): a cut at every "="
SplitN2_NoLimit(line) ==
    LET at == {i \in DOMAIN line : line[i] = 61}
    IN  IF at = {} THEN <<line>>
        ELSE LET cut == CHOOSE i \in at : \A j \in at : i <= j
             IN  <<SubSeq(line, 1, cut - 1)>>
                 \o SplitN2_NoLimit(SubSeq(line, cut + 1, Len(line)))

\* strings.SplitN(line, "=", 2)
SplitN2(line) ==
    LET at == {i \in DOMAIN line : line[i] = 61}
    IN  IF at = {} THEN <<line>>
        ELSE LET cut == CHOOSE i \in at : \A j \in at : i <= j
             IN  <<SubSeq(line, 1, cut - 1), SubSeq(line, cut + 1, Len(line))>>

\* one layer of matching quotes is taken off
Unquote(value) ==
    IF /\ Len(value) >= 2
       /\ \/ value[1] = 34 /\ value[Len(value)] = 34
          \/ value[1] = 39 /\ value[Len(value)] = 39
    THEN SubSeq(value, 2, Len(value) - 1)
    ELSE value

\* IsTypeLine looking at every line that starts with "#"
IsTypeLine_AnyLine(lineNum, line) == HasPrefix(line, Hash)

\* the test "lineNum == 1 && strings.HasPrefix(line, "#")"
IsTypeLine(lineNum, line) == lineNum = 1 /\ HasPrefix(line, Hash)

RECURSIVE ParseFrom(_, _, _, _)
\* the loop of parseSecretContent from line lineNum on
ParseFrom(content, lineNum, data, secretType) ==
    IF lineNum > Len(content)
    THEN Parsed(NoParseError, data, mapSecretType(secretType))
    ELSE LET line == TrimSpace(content[lineNum])
             typeMatch == extractTypeFromComment(line)
             parts == SplitN2(line)
         IN  IF IsTypeLine(lineNum, line) /\ typeMatch # <<>>
             THEN ParseFrom(content, lineNum + 1, data, NameOf(typeMatch))
             ELSE IF line = <<>> \/ HasPrefix(line, Hash)
             THEN ParseFrom(content, lineNum + 1, data, secretType)
             ELSE IF Len(parts) # 2
             THEN Parsed(InvalidLine(lineNum, line), EmptyMap, "")
             ELSE LET key == NameOf(TrimSpace(parts[1]))
                      value == Text(Unquote(TrimSpace(parts[2])))
                  IN  ParseFrom(content, lineNum + 1,
                                [k \in DOMAIN data \cup {key} |->
                                    IF k = key THEN value ELSE data[k]],
                                secretType)

parseSecretContent(content) == ParseFrom(content, 1, EmptyMap, OpaqueType)

(***************************************************************************)
(* Substitution of environment variables: os.Expand(value, os.Getenv).     *)
(* An environment maps the names that are set, as bytes, to their values.  *)
(***************************************************************************)
\* the one-byte shell variables * # $ @ ! ? - and 0 to 9
IsShellSpecialVar(c) == c \in {42, 35, 36, 64, 33, 63, 45} \cup (48..57)

IsAlphaNum(c) == c = 95 \/ c \in 48..57 \/ c \in 97..122 \/ c \in 65..90

\* the name that follows a "$" and the number of bytes it takes; s is not empty
getShellName(s) ==
    IF s[1] = 123
    THEN IF Len(s) > 2 /\ IsShellSpecialVar(s[2]) /\ s[3] = 125
         THEN [name |-> <<s[2]>>, w |-> 3]
         ELSE LET closing == {i \in 2..Len(s) : s[i] = 125}
              IN  IF closing = {} THEN [name |-> <<>>, w |-> 1]
                  ELSE LET i == CHOOSE c \in closing : \A d \in closing : c <= d
                       IN  IF i = 2 THEN [name |-> <<>>, w |-> 2]
                           ELSE [name |-> SubSeq(s, 2, i - 1), w |-> i]
    ELSE IF IsShellSpecialVar(s[1]) THEN [name |-> <<s[1]>>, w |-> 1]
    ELSE LET n == CHOOSE m \in 0..Len(s) :
                      /\ \A i \in 1..m : IsAlphaNum(s[i])
                      /\ m = Len(s) \/ ~IsAlphaNum(s[m + 1])
         IN  [name |-> SubSeq(s, 1, n), w |-> n]

\* os.Getenv: the value of a name, empty when the name is not set
Getenv(env, name) == IF name \in DOMAIN env THEN env[name] ELSE <<>>

RECURSIVE ExpandFrom(_, _, _)
\* the loop of os.Expand from byte j on
ExpandFrom(s, j, env) ==
    IF j > Len(s) THEN <<>>
    ELSE IF s[j] = 36 /\ j < Len(s)
    THEN LET found == getShellName(SubSeq(s, j + 1, Len(s)))
             put == IF found.name = <<>> /\ found.w > 0 THEN <<>>
                    ELSE IF found.name = <<>> THEN <<36>>
                    ELSE Getenv(env, found.name)
         IN  put \o ExpandFrom(s, j + found.w + 1, env)
    ELSE <<s[j]>> \o ExpandFrom(s, j + 1, env)

Expand(s, env) == ExpandFrom(s, 1, env)

\* substituteEnvVars expanding what the expansion produced once more
substituteEnvVars_Twice(data, env) ==
    [key \in DOMAIN data |-> Text(Expand(Expand(data[key].txt, env), env))]

substituteEnvVars(data, env) ==
    [key \in DOMAIN data |-> Text(Expand(data[key].txt, env))]

\* LoadSecretFile from the parsing on: the path has its three parts and the
\* file was read
LoadSecretContent(content, env) ==
    LET parsed == parseSecretContent(content)
    IN  IF parsed.err # NoParseError THEN Loaded("failed to parse file", "", EmptyMap)
        ELSE Loaded("none", parsed.type, substituteEnvVars(parsed.data, env))

\* "# type="
TypeComment == <<35, 32, 116, 121, 112, 101, 61>>

\* the bytes of a line that WriteSecretFile writes, without the line feed
FileLine(line) ==
    IF line.kind = "type" THEN TypeComment \o Bytes(line.alias)
    ELSE Bytes(line.key) \o <<61>> \o line.text

\* the lines that a scanner reads from the file that was written
FileContent(lines) == [i \in DOMAIN lines |-> FileLine(lines[i])]

\* compareSecretsRemote counting only the keys that both sides hold
compareSecretsRemote_SharedOnly(secretName, onsite, remote, verbose) ==
    LET keys == SortStrings(DOMAIN onsite \cup DOMAIN remote)
    IN  [differences |->
             Cardinality({i \in DOMAIN keys :
                             /\ Has(onsite, keys[i]) /\ Has(remote, keys[i])
                             /\ onsite[keys[i]] # remote[keys[i]]}),
         lines |-> <<>>]

compareSecretsRemote(secretName, onsite, remote, verbose) ==
    LET keys == SortStrings(DOMAIN onsite \cup DOMAIN remote)
        printed(key) ==
            (IF Changed(onsite, remote, key) \/ verbose
             THEN <<KeyLine(secretName, key)>> ELSE <<>>)
            \o IF Changed(onsite, remote, key)
               THEN <<ValueLine(key, "remote",
                                formatValue(ValueOf(remote, key), Has(remote, key), verbose)),
                      ValueLine(key, "onsite",
                                formatValue(ValueOf(onsite, key), Has(onsite, key), verbose))>>
               ELSE <<>>
    IN  [differences |-> CountChanged(keys, onsite, remote),
         lines |-> Flatten([i \in DOMAIN keys |-> printed(keys[i])])]

\* RemoteDifferences counting every local key of a secret that could not be fetched
RemoteDifferences_CountsKeys(remote, onsite) ==
    IF remote.err # "none"
    THEN Cardinality(DOMAIN onsite)
    ELSE compareSecretsRemote("", onsite, remote.data, FALSE).differences

\* upload, lines 55-62: any failure of the fetch counts as one difference
RemoteDifferences(remote, onsite) ==
    IF remote.err # "none" THEN 1
    ELSE compareSecretsRemote("", onsite, remote.data, FALSE).differences

\* ShouldWrite without the force flag
ShouldWrite_NoForce(force, doit, differences) == differences > 0 /\ doit

\* ShouldWrite without the inner "if doit"
ShouldWrite_NoInnerDoit(force, doit, differences) == force \/ (differences > 0 /\ doit)

\* upload, lines 70-71: whether the body of "if doit" is entered
ShouldWrite(force, doit, differences) ==
    (force \/ (differences > 0 /\ doit)) /\ doit

\* AfterSecret returning from upload after a failure instead of continuing
AfterSecret_Returns(failed) == IF failed THEN "return" ELSE "loop"

\* upload, lines 52, 78, 84: "continue" after a failure, the loop goes on
AfterSecret(failed) == "loop"

(***************************************************************************)
(* main and upload.                                                        *)
(***************************************************************************)
Commands == {"upload", "diff", "bogus"}

\* main: flags and command are parsed; "diff" with one path is
\* upload(path, false, false, verbose) (handleDiff)
Main ==
    /\ pc = "main"
    /\ \E c \in Commands, f \in BOOLEAN, d \in BOOLEAN :
          /\ cmd' = c
          /\ fForce' = f
          /\ fDoit' = d
          /\ IF c \notin {"upload", "diff"}
             THEN /\ exitCode' = 1
                  /\ pc' = "exited"
                  /\ UNCHANGED <<uForce, uDoit>>
             ELSE /\ exitCode' = exitCode
                  /\ pc' = "load"
                  /\ uForce' = IF c = "upload" THEN f ELSE FALSE
                  /\ uDoit' = IF c = "upload" THEN d ELSE FALSE
    /\ UNCHANGED <<root, files, kube, store, secrets, idx, secretsChanged, keysChanged,
                   errors, uRet, faults, log, calls, summaries>>
    /\ UNCHANGED <<prior, codecVars, diffVars, parseVars>>

\* upload, lines 30-42
UploadLoad ==
    /\ pc = "load"
    /\ LET loaded == LoadSecretsFromPath(root, files)
       IN  IF loaded.err # "none"
           THEN /\ uRet' = "failed to load secrets"
                /\ pc' = "return"
                /\ secrets' = secrets
           ELSE IF Len(loaded.secrets) = 0
           THEN /\ uRet' = "nil"
                /\ pc' = "return"
                /\ secrets' = loaded.secrets
           ELSE /\ uRet' = uRet
                /\ pc' = "loop"
                /\ secrets' = loaded.secrets
    /\ idx' = 0
    /\ secretsChanged' = 0
    /\ keysChanged' = 0
    /\ errors' = <<>>
    /\ UNCHANGED <<root, files, kube, store, cmd, fForce, fDoit, uForce, uDoit, exitCode,
                   faults, log, calls, summaries>>
    /\ UNCHANGED <<prior, codecVars, diffVars, parseVars>>

\* upload, lines 44-88: one iteration of the loop
UploadSecret ==
    /\ pc = "loop"
    /\ idx < Len(secrets)
    /\ \E readFault \in BOOLEAN, getFault \in BOOLEAN, mutFault \in BOOLEAN :
         LET secret == secrets[idx + 1]
             injected == Cardinality({x \in {<<1, readFault>>, <<2, getFault>>, <<3, mutFault>>} : x[2]})
         IN
         /\ kube \/ injected = 0
         /\ faults + injected <= MaxFaults
         /\ \E remote \in FromRemoteSecret(store, kube, secret, readFault) :
              LET onsite == FromOnsiteSecret(secret).data
                  differences == RemoteDifferences(remote, onsite)
                  attempted == ShouldWrite(uForce, uDoit, differences)
                  conv == ToKubernetesData(secret.type, secret.data)
                  called == attempted /\ conv.err = "none"
                  wr == secretWrite(store, kube, secret, conv.data, getFault, mutFault)
                  failure == IF attempted /\ conv.err # "none" THEN conv.err
                             ELSE IF called /\ wr.err # "none" THEN wr.err
                             ELSE "none"
                  changed == differences > 0
              IN
              /\ called \/ (~getFault /\ ~mutFault)
              /\ secretsChanged' = IF changed THEN secretsChanged + 1 ELSE secretsChanged
              /\ keysChanged' = IF changed THEN keysChanged + differences ELSE keysChanged
              /\ errors' = IF failure # "none"
                           THEN Append(errors, [id |-> Id(secret), err |-> failure])
                           ELSE errors
              /\ store' = IF called THEN wr.store ELSE store
              /\ calls' = calls
                            \o (IF kube THEN <<Call("Get", Id(secret))>> ELSE <<>>)
                            \o (IF called THEN wr.calls ELSE <<>>)
              /\ log' = Append(log, [id |-> Id(secret),
                                     fetch |-> remote.err,
                                     localKeys |-> Cardinality(DOMAIN onsite),
                                     onsite |-> onsite,
                                     remote |-> remote.data,
                                     differences |-> differences,
                                     keysAdded |-> keysChanged' - keysChanged,
                                     secretsAdded |-> secretsChanged' - secretsChanged,
                                     attempted |-> attempted,
                                     called |-> called,
                                     existed |-> store[Id(secret)].exists,
                                     getFailed |-> getFault,
                                     writeCalls |-> IF called THEN wr.calls ELSE <<>>,
                                     failure |-> failure])
              /\ pc' = AfterSecret(remote.err # "none" \/ failure # "none")
         /\ faults' = faults + injected
    /\ idx' = idx + 1
    /\ UNCHANGED <<root, files, kube, cmd, fForce, fDoit, uForce, uDoit, secrets, uRet,
                   exitCode, summaries>>
    /\ UNCHANGED <<prior, codecVars, diffVars, parseVars>>

\* upload, lines 90-99: the summary, printed once the loop is over
UploadSummary ==
    /\ pc = "loop"
    /\ idx = Len(secrets)
    /\ summaries' = Append(summaries, [at |-> idx,
                                       secretsChanged |-> secretsChanged,
                                       keysChanged |-> keysChanged,
                                       errorCount |-> Len(errors)])
    /\ uRet' = "nil"
    /\ pc' = "return"
    /\ UNCHANGED <<root, files, kube, store, cmd, fForce, fDoit, uForce, uDoit, secrets, idx,
                   secretsChanged, keysChanged, errors, exitCode, faults, log, calls>>
    /\ UNCHANGED <<prior, codecVars, diffVars, parseVars>>

\* main, lines 71-95: exit 1 when the handler returned an error
MainExit ==
    /\ pc = "return"
    /\ exitCode' = IF uRet # "nil" THEN 1 ELSE 0
    /\ pc' = "exited"
    /\ UNCHANGED <<root, files, kube, store, cmd, fForce, fDoit, uForce, uDoit, secrets, idx,
                   secretsChanged, keysChanged, errors, uRet, faults, log, calls, summaries>>
    /\ UNCHANGED <<prior, codecVars, diffVars, parseVars>>

\* the secrets that the invocation wrote without error
WrittenWithoutError(history) ==
    {history[k].id : k \in {j \in DOMAIN history :
                                history[j].called /\ history[j].failure = "none"}}

\* the invocation that follows an upload with -doit that wrote a secret:
\* "diff <path>", which is upload(path, false, false, verbose), on the same
\* files and on the cluster as the upload left it; it meets no failure of
\* the cluster (the failures that can be injected are used up)
MainAgain ==
    /\ pc = "exited"
    /\ cmd = "upload"
    /\ WrittenWithoutError(log) # {}
    /\ prior' = log
    /\ cmd' = "diff"
    /\ fForce' = FALSE
    /\ fDoit' = FALSE
    /\ uForce' = FALSE
    /\ uDoit' = FALSE
    /\ pc' = "load"
    /\ exitCode' = -1
    /\ uRet' = "nil"
    /\ log' = <<>>
    /\ calls' = <<>>
    /\ summaries' = <<>>
    /\ faults' = MaxFaults
    /\ UNCHANGED <<root, files, kube, store, secrets, idx, secretsChanged, keysChanged,
                   errors>>
    /\ UNCHANGED <<codecVars, diffVars, parseVars>>

Next == Main \/ UploadLoad \/ UploadSecret \/ UploadSummary \/ MainExit \/ MainAgain

Spec == Init /\ [][Next]_vars

(***************************************************************************)
(* The type codec on its own: ToKubernetesData applied to drawn entries    *)
(* and FromKubernetesData applied to its result (a round trip) or to a     *)
(* drawn wire map.                                                         *)
(***************************************************************************)
Types == {DockerType, OpaqueType, TlsType, BasicAuthType, SshAuthType, CustomType, DockerAlias}

NoChoice == [has |-> FALSE, s |-> <<>>]

Opt(n) == {NoChoice} \cup {[has |-> TRUE, s |-> x] : x \in Strs(n)}

MakeEntries(sv, un, pw, em, ot) ==
    LET pick == [k \in DockerKeys \cup {"note"} |->
                    IF k = "docker-server" THEN sv
                    ELSE IF k = "docker-username" THEN un
                    ELSE IF k = "docker-password" THEN pw
                    ELSE IF k = "docker-email" THEN em
                    ELSE ot]
    IN  [k \in {x \in DOMAIN pick : pick[x].has} |-> Text(pick[k].s)]

EntryInputs ==
    {MakeEntries(sv, un, pw, em, ot) :
        sv \in Opt(1), un \in Opt(MaxLen), pw \in Opt(MaxLen), em \in Opt(1),
        ot \in {NoChoice, [has |-> TRUE, s |-> <<117>>]}}

AuthInputs ==
    LET plain == DockerAuth(<<117>>, <<117>>, <<58>>, <<>>, Base64(<<117, 58, 58>>))
        mailed == DockerAuth(<<58>>, <<58>>, <<117>>, <<117>>, Base64(<<58, 58, 117>>))
    IN  {plain, mailed,
         [plain EXCEPT !.server = <<117, 58>>, !.hasEmail = TRUE],
         [plain EXCEPT !.typed = FALSE],
         DockerAuth(<<58, 58>>, <<>>, <<>>, <<>>, <<>>)}

DocInputs ==
    {[kind |-> k, auths |-> NoAuths] : k \in {"invalid", "null", "scalar", "object"}}
    \cup {[kind |-> "object", auths |-> [kind |-> k, entries |-> {}]] : k \in {"null", "scalar"}}
    \cup {[kind |-> "object", auths |-> [kind |-> "object", entries |-> es]] :
             es \in {x \in SUBSET AuthInputs :
                        /\ Cardinality(x) <= MaxAuths
                        /\ \A e1, e2 \in x : e1.server = e2.server => e1 = e2}}

WireInputs ==
    {EmptyMap, [k \in {"note"} |-> Text(<<117>>)], [k \in {DockerConfigKey} |-> Text(<<117>>)]}
    \cup {[k \in {DockerConfigKey} |-> [json |-> d]] : d \in DocInputs}
    \cup {[k \in {DockerConfigKey, "note"} |->
              IF k = "note" THEN Text(<<117>>) ELSE [json |-> d]] : d \in DocInputs}

DriverOff ==
    /\ root = "missing"
    /\ files = <<>>
    /\ kube = FALSE
    /\ store = [id \in Ids |-> Absent]
    /\ pc = "codec"
    /\ cmd = ""
    /\ fForce = FALSE
    /\ fDoit = FALSE
    /\ uForce = FALSE
    /\ uDoit = FALSE
    /\ secrets = <<>>
    /\ idx = 0
    /\ secretsChanged = 0
    /\ keysChanged = 0
    /\ errors = <<>>
    /\ uRet = "nil"
    /\ exitCode = -1
    /\ faults = 0
    /\ log = <<>>
    /\ calls = <<>>
    /\ prior = <<>>
    /\ summaries = <<>>

CodecInit ==
    /\ DriverOff
    /\ DiffOff
    /\ ParseOff
    /\ cType \in Types
    /\ cBack = Success(EmptyMap)
    /\ cAgain = Success(EmptyMap)
    /\ \/ /\ cPc = "in"
          /\ cEntries \in EntryInputs
          /\ cWire = Success(EmptyMap)
       \/ /\ cPc = "given"
          /\ cEntries = EmptyMap
          /\ cWire \in {Success(w) : w \in WireInputs}

\* ToKubernetesData on the drawn entries
CodecToWire ==
    /\ cPc = "in"
    /\ cWire' = ToKubernetesData(cType, cEntries)
    /\ cPc' = IF cWire'.err = "none" THEN "wired" ELSE "failed"
    /\ UNCHANGED <<cType, cEntries, cBack, cAgain>>
    /\ UNCHANGED <<driverVars, diffVars, parseVars>>

\* FromKubernetesData on the wire map, the one made or the one drawn
CodecFromWire ==
    /\ cPc \in {"wired", "given"}
    /\ cBack' \in FromKubernetesData(cType, cWire.data)
    /\ cPc' = IF cPc = "wired" THEN "round" ELSE "parsed"
    /\ UNCHANGED <<cType, cEntries, cWire, cAgain>>
    /\ UNCHANGED <<driverVars, diffVars, parseVars>>

\* FromKubernetesData once more on the same drawn wire map
CodecFromWireAgain ==
    /\ cPc = "parsed"
    /\ cAgain' \in FromKubernetesData(cType, cWire.data)
    /\ cPc' = "twice"
    /\ UNCHANGED <<cType, cEntries, cWire, cBack>>
    /\ UNCHANGED <<driverVars, diffVars, parseVars>>

CodecNext == CodecToWire \/ CodecFromWire \/ CodecFromWireAgain

CodecSpec == CodecInit /\ [][CodecNext]_vars

(***************************************************************************)
(* The diff on its own: the entry diff of two drawn entry maps, in both    *)
(* modes and with the arguments both ways round, and the local-vs-local    *)
(* diff of two drawn sets of files.                                        *)
(***************************************************************************)
MaxKeys == 2      \* most keys of a drawn entry map

KeyInputs == {"K", "KL", "L"}

\* "0123456789"
Ten == <<48, 49, 50, 51, 52, 53, 54, 55, 56, 57>>

\* "0123456789a"
Eleven == Ten \o <<97>>

\* six times U+00E9 in UTF-8: 6 characters, 12 bytes
SixWide == <<195, 169, 195, 169, 195, 169, 195, 169, 195, 169, 195, 169>>

ValueInputs == {<<>>, MissingText, Ten, Eleven, SixWide}

MapInputs ==
    UNION {[ks -> {Text(v) : v \in ValueInputs}] :
              ks \in {x \in SUBSET KeyInputs : Cardinality(x) <= MaxKeys}}

DataOne == [k \in {"K"} |-> Text(<<117>>)]

DataTwo == [k \in {"K", "KL", "L"} |-> IF k = "K" THEN Text(<<58>>) ELSE Text(<<117>>)]

SetUniverse ==
    {Secret(ns, name, OpaqueType, data) :
        ns \in {"test", "live"}, name \in {"x", "y"}, data \in {DataOne, DataTwo}}
    \cup {FileF("parse")}

\* filepath.Walk visits <root>/<namespace>/<name>.env in lexical order
WalkedBefore(f, g) ==
    \/ Less(f.namespace, g.namespace)
    \/ f.namespace = g.namespace /\ Less(f.name, g.name)

\* the files under a path, in walk order
SetInputs ==
    {q \in UNION {[1..n -> SetUniverse] : n \in 0..MaxFiles} :
        \A i, j \in DOMAIN q : i < j => WalkedBefore(q[i], q[j])}

\* one secret, for the manifest and for WriteSecretFile
SecretInputs ==
    {Secret("test", "x", type, data) :
        type \in {OpaqueType, TlsType, CustomType}, data \in MapInputs}
    \cup {FileD, FileE}

DiffInit ==
    /\ DriverOff
    /\ CodecOff
    /\ ParseOff
    /\ dVerbose \in BOOLEAN
    /\ dOut = Result("none", 0, <<>>)
    /\ dSwap = Result("none", 0, <<>>)
    /\ \/ /\ dPc = "entries"
          /\ dA \in MapInputs
          /\ dB \in MapInputs
          /\ dSet1 = <<>>
          /\ dSet2 = <<>>
       \/ /\ dPc = "sets"
          /\ dA = EmptyMap
          /\ dB = EmptyMap
          /\ dSet1 \in SetInputs
          /\ dSet2 \in SetInputs
       \/ /\ dPc = "secret"
          /\ dA = EmptyMap
          /\ dB = EmptyMap
          /\ dSet1 \in {<<secret>> : secret \in SecretInputs}
          /\ dSet2 = <<>>

\* compareSecretsLocal(ns1, ns2, A, B) and, for comparison, (ns2, ns1, B, A)
CompareLocal ==
    /\ dPc = "entries"
    /\ LET out == compareSecretsLocal("test", "live", dA, dB, dVerbose)
           swap == compareSecretsLocal("live", "test", dB, dA, dVerbose)
       IN  /\ dOut' = Result("none", out.differences, out.lines)
           /\ dSwap' = Result("none", swap.differences, swap.lines)
    /\ dPc' = "local"
    /\ UNCHANGED <<dVerbose, dA, dB, dSet1, dSet2>>
    /\ UNCHANGED <<driverVars, codecVars, parseVars>>

\* compareSecretsRemote(name, onsite A, remote B) and, for comparison, (name, B, A)
CompareRemote ==
    /\ dPc = "entries"
    /\ LET out == compareSecretsRemote("x", dA, dB, dVerbose)
           swap == compareSecretsRemote("x", dB, dA, dVerbose)
       IN  /\ dOut' = Result("none", out.differences, out.lines)
           /\ dSwap' = Result("none", swap.differences, swap.lines)
    /\ dPc' = "remote"
    /\ UNCHANGED <<dVerbose, dA, dB, dSet1, dSet2>>
    /\ UNCHANGED <<driverVars, codecVars, parseVars>>

\* handleDiff with two paths
DiffLocalVsLocal ==
    /\ dPc = "sets"
    /\ dOut' = diffLocalVsLocal("path1", "path2", dSet1, dSet2, dVerbose)
    /\ dSwap' = diffLocalVsLocal("path2", "path1", dSet2, dSet1, dVerbose)
    /\ dPc' = "localsets"
    /\ UNCHANGED <<dVerbose, dA, dB, dSet1, dSet2>>
    /\ UNCHANGED <<driverVars, codecVars, parseVars>>

\* handleManifest on the files of path1
HandleManifest ==
    /\ dPc \in {"sets", "secret"}
    /\ dOut' = handleManifest(dSet1)
    /\ dPc' = "manifest"
    /\ UNCHANGED <<dVerbose, dA, dB, dSet1, dSet2, dSwap>>
    /\ UNCHANGED <<driverVars, codecVars, parseVars>>

\* WriteSecretFile(path, secret.Type, secret.Data), as download calls it
WriteFile ==
    /\ dPc = "secret"
    /\ \E order \in RangeOrders(dSet1[1].data) :
          dOut' = Result("none", 0, WriteSecretFile(dSet1[1].type, dSet1[1].data, order))
    /\ dPc' = "written"
    /\ UNCHANGED <<dVerbose, dA, dB, dSet1, dSet2, dSwap>>
    /\ UNCHANGED <<driverVars, codecVars, parseVars>>

DiffNext == CompareLocal \/ CompareRemote \/ DiffLocalVsLocal \/ HandleManifest \/ WriteFile

DiffSpec == DiffInit /\ [][DiffNext]_vars

(***************************************************************************)
(* The parser on its own: parseSecretContent applied to drawn lines.       *)
(***************************************************************************)
MaxLines == 2     \* most lines of a drawn plaintext

LineInputs ==
    {<<>>,                                              \* blank
     <<32, 32>>,                                        \* two spaces
     <<35, 32, 99>>,                                    \* # c
     <<32, 35, 75, 61, 118>>,                           \*  #K=v
     <<35, 32, 116, 121, 112, 101, 61, 116, 108, 115>>, \* # type=tls
     <<35, 116, 121, 112, 101, 32, 61, 32, 100, 111, 99, 107, 101, 114, 45,
       114, 101, 103, 105, 115, 116, 114, 121>>,        \* #type = docker-registry
     <<75, 61, 118>>,                                   \* K=v
     <<75, 61, 118, 61, 119>>,                          \* K=v=w
     <<76, 61>>,                                        \* L=
     <<61, 118>>,                                       \* =v
     <<32, 75, 32, 61, 32, 118, 32>>,                   \*  K = v
     <<76, 61, 34, 118, 61, 34>>,                       \* L="v="
     <<75>>,                                            \* K
     <<75, 32, 118>>}                                   \* K v

ContentInputs == UNION {[1..n -> LineInputs] : n \in 0..MaxLines}

\* the names A and B
NameA == <<65>>

NameB == <<66>>

\* environments: A is not set, or holds "v", "$B" or "${A}"; B is not set or holds "w"
EnvInputs ==
    {[n \in names |-> IF n = NameA THEN a ELSE <<119>>] :
        names \in {{NameA, NameB}, {NameA}}, a \in {<<118>>, <<36, 66>>, <<36, 123, 65, 125>>}}
    \cup {[n \in names |-> <<119>>] : names \in {{NameB}, {}}}

MaxSegments == 2

\* the parts of a value: the text "u" or ".", or a reference to A or B
\* with or without braces
SegmentInputs ==
    {[lit |-> <<117>>], [lit |-> <<46>>]}
    \cup {[braced |-> n] : n \in {NameA, NameB}}
    \cup {[bare |-> n] : n \in {NameA, NameB}}

\* the bytes of a part
Render(segment) ==
    IF Has(segment, "lit") THEN segment.lit
    ELSE IF Has(segment, "braced") THEN <<36, 123>> \o segment.braced \o <<125>>
    ELSE <<36>> \o segment.bare

\* values whose references are the parts: a name without braces is not
\* followed by text that would lengthen it
ValueSegments ==
    {segs \in UNION {[1..n -> SegmentInputs] : n \in 0..MaxSegments} :
        \A i \in 1..(Len(segs) - 1) :
            Has(segs[i], "bare") /\ Has(segs[i + 1], "lit")
                => ~IsAlphaNum(segs[i + 1].lit[1])}

\* values that WriteSecretFile is given: v, the empty one, "a b", $A, a"b, 'v', a\b
WriteValues ==
    {<<118>>, <<>>, <<97, 32, 98>>, <<36, 65>>, <<97, 34, 98>>, <<39, 118, 39>>,
     <<97, 92, 98>>}

WriteMaps ==
    UNION {[keys -> {Text(v) : v \in WriteValues}] : keys \in SUBSET {"K", "L"}}

\* the types a loaded secret can have
CanonicalTypes == {OpaqueType, DockerType, TlsType, BasicAuthType, SshAuthType, CustomType}

ParseInit ==
    /\ DriverOff
    /\ CodecOff
    /\ DiffOff
    /\ pEnv \in EnvInputs
    /\ pOut = Parsed(NoParseError, EmptyMap, OpaqueType)
    /\ pLoaded = Loaded("none", OpaqueType, EmptyMap)
    /\ \/ /\ pContent \in ContentInputs
          /\ pGiven = [kind |-> "lines"]
          /\ pPc = "in"
       \/ \E segs \in ValueSegments :
             /\ pContent = <<<<76, 61>> \o Flatten([i \in DOMAIN segs |-> Render(segs[i])])>>
             /\ pGiven = [kind |-> "value", segments |-> segs]
             /\ pPc = "in"
       \/ \E secretType \in CanonicalTypes, data \in WriteMaps :
             /\ pContent = <<>>
             /\ pGiven = [kind |-> "secret", type |-> secretType, data |-> data]
             /\ pPc = "towrite"

\* WriteSecretFile of the given secret, leaving the file to be loaded
WriteSecret ==
    /\ pPc = "towrite"
    /\ \E order \in RangeOrders(pGiven.data) :
          pContent' = FileContent(WriteSecretFile(pGiven.type, pGiven.data, order))
    /\ pPc' = "in"
    /\ UNCHANGED <<pOut, pEnv, pGiven, pLoaded>>
    /\ UNCHANGED <<driverVars, codecVars, diffVars>>

\* LoadSecretFile of the file; pOut keeps what its call of parseSecretContent returned
ParseContent ==
    /\ pPc = "in"
    /\ pOut' = parseSecretContent(pContent)
    /\ pLoaded' = LoadSecretContent(pContent, pEnv)
    /\ pPc' = "parsed"
    /\ UNCHANGED <<pContent, pEnv, pGiven>>
    /\ UNCHANGED <<driverVars, codecVars, diffVars>>

ParseNext == WriteSecret \/ ParseContent

ParseSpec == ParseInit /\ [][ParseNext]_vars

(***************************************************************************)
(* Properties of upload and of the one-path diff (specification Spec).     *)
(***************************************************************************)
Mutating(c) == c.op \in {"Create", "Update"}

MutatingCallFor(id) == \E i \in DOMAIN calls : Mutating(calls[i]) /\ calls[i].id = id

ErrorRecordedFor(id) == \E i \in DOMAIN errors : errors[i].id = id

Uploading == cmd \in {"upload", "diff"}

\* C1, as the specification states it: a secret is written exactly when force
\* is set, whatever the commit flag, or a difference was found and doit is set.
C1_WrittenIffForceOrChangedAndDoit ==
    \A k \in DOMAIN log :
        log[k].called <=> (uForce \/ (log[k].differences > 0 /\ uDoit))

\* C1, amended: the store write of a secret is issued exactly when doit is set
\* and (force is set or at least one difference was found) and the secret's
\* conversion to wire form succeeded; the store's Create or Update follows
\* exactly when moreover a cluster configuration was found.
C1_WrittenIffDoitAndForceOrChanged ==
    \A k \in DOMAIN log :
        /\ log[k].called <=>
              /\ uDoit
              /\ uForce \/ log[k].differences > 0
              /\ ToKubernetesData(secrets[k].type, secrets[k].data).err = "none"
        /\ MutatingCallFor(log[k].id) <=> (log[k].called /\ kube)

\* a secret written because it differs, and one written only because of force
C1_Witness ==
    /\ \E k \in DOMAIN log : log[k].called /\ ~uForce /\ log[k].differences > 0
                               /\ MutatingCallFor(log[k].id)
    /\ pc = "exited"

\* C2: without the commit flag no Create and no Update is issued, whatever
\* force and the differences; the one-path diff runs upload without it.
C2_NoWriteWithoutDoit ==
    /\ ~uDoit => /\ \A i \in DOMAIN calls : ~Mutating(calls[i])
                 /\ \A k \in DOMAIN log : ~log[k].called
    /\ cmd = "diff" => ~uDoit /\ ~uForce

\* the one-path diff given -force and -doit, over a secret that differs
C2_Witness ==
    /\ cmd = "diff" /\ fDoit /\ fForce /\ pc = "exited"
    /\ \E k \in DOMAIN log : log[k].differences > 0

\* C3: a failure on one secret does not stop the batch: every loaded secret
\* is processed once, in load order, and the summary is emitted once, after
\* the last of them.
C3_BatchRunsToTheEnd ==
    /\ Len(summaries) <= 1
    /\ pc = "loop" => summaries = <<>> /\ Len(log) = idx
    /\ (pc \in {"return", "exited"} /\ Uploading /\ secrets # <<>>) =>
          /\ Len(log) = Len(secrets)
          /\ \A k \in DOMAIN log : log[k].id = Id(secrets[k])
          /\ Len(summaries) = 1
          /\ summaries[1].at = Len(secrets)
          /\ summaries[1].errorCount = Len(errors)

\* a batch whose first secret failed (fetch, conversion or write) and whose
\* second secret was processed all the same
C3_Witness ==
    /\ pc = "exited" /\ Len(log) >= 2
    /\ log[1].failure # "none"
    /\ \E k \in DOMAIN log : k > 1 /\ log[k].fetch # "none"
    /\ Len(summaries) = 1

\* C4: a remote fetch that fails otherwise than by not-found (transport,
\* wire-to-canonical conversion) is recorded as an error of the batch; a
\* secret that merely does not exist remotely is not.
C4_FetchFailureIsCounted ==
    \A k \in DOMAIN log :
        /\ log[k].fetch \notin {"none", NotFound} => ErrorRecordedFor(log[k].id)
        /\ (log[k].fetch = NotFound /\ log[k].failure = "none") => ~ErrorRecordedFor(log[k].id)

\* C5: upload and one-path diff exit with 1 when an error was recorded for
\* some secret, with 0 only when none was.
C5_ExitCodeReflectsErrors ==
    (pc = "exited" /\ Uploading) =>
        /\ Len(errors) > 0 => exitCode = 1
        /\ exitCode = 0 => Len(errors) = 0

\* C6: a file of a set of several that fails to load is counted as that
\* secret's error and the other secrets of the set are still compared.
C6_LoadFailureIsPerSecret ==
    (pc = "exited" /\ Uploading /\ root = "dir" /\ Len(files) >= 2) =>
        \A i \in DOMAIN files :
            IF files[i].loads = "ok"
            THEN \E k \in DOMAIN log : log[k].id = Id(files[i])
            ELSE ErrorRecordedFor(Id(files[i]))

\* C7, as the specification states it: a secret missing remotely adds its
\* number of local keys to keysChanged and one to secretsChanged.
C7_MissingCountsEveryKey ==
    \A k \in DOMAIN log :
        log[k].fetch = NotFound =>
            /\ log[k].keysAdded = log[k].localKeys
            /\ log[k].secretsAdded = 1

\* C7, amended: a secret missing remotely adds exactly one to keysChanged,
\* whatever its number of local keys, and one to secretsChanged.
C7_MissingCountsOne ==
    \A k \in DOMAIN log :
        log[k].fetch = NotFound =>
            /\ log[k].differences = 1
            /\ log[k].keysAdded = 1
            /\ log[k].secretsAdded = 1

\* a secret of two keys that does not exist remotely
C7_Witness ==
    \E k \in DOMAIN log : log[k].fetch = NotFound /\ log[k].localKeys = 2

(***************************************************************************)
(* Properties of the docker-registry codec (specification CodecSpec).      *)
(***************************************************************************)
Missing(x, key) == ~Has(x, key) \/ x[key] = Text(<<>>)

ValidRegistry(x) ==
    /\ ~Missing(x, "docker-server")
    /\ ~Missing(x, "docker-username")
    /\ ~Missing(x, "docker-password")

\* x with an empty docker-email taken out
WithoutEmptyEmail(x) ==
    [k \in {d \in DOMAIN x : ~(d = "docker-email" /\ x[d] = Text(<<>>))} |-> x[k]]

\* C8: for every valid docker-registry entry set X (of the docker-* fields),
\* FromKubernetesData(type, ToKubernetesData(X)) succeeds and is X, an empty
\* docker-email coming back absent.
C8_RegistryRoundTrip ==
    (cType = DockerType /\ ValidRegistry(cEntries) /\ DOMAIN cEntries \subseteq DockerKeys) =>
        /\ cPc \in {"in", "wired", "round"}
        /\ cPc = "round" => cBack = Success(WithoutEmptyEmail(cEntries))

\* a round trip of entries whose docker-email is empty
C8_Witness ==
    /\ cPc = "round" /\ cType = DockerType /\ ValidRegistry(cEntries)
    /\ Has(cEntries, "docker-email") /\ cEntries["docker-email"] = Text(<<>>)
    /\ ~Has(cBack.data, "docker-email")
    /\ Len(cEntries["docker-password"].txt) = 2

FirstMissing(x) ==
    IF Missing(x, "docker-server") THEN "docker-server"
    ELSE IF Missing(x, "docker-username") THEN "docker-username"
    ELSE IF Missing(x, "docker-password") THEN "docker-password"
    ELSE "none"

RequiredMessage(field) ==
    IF field = "docker-server" THEN "docker-server is required for docker-registry secrets"
    ELSE IF field = "docker-username" THEN "docker-username is required for docker-registry secrets"
    ELSE "docker-password is required for docker-registry secrets"

\* C9: ToKubernetesData of a docker-registry secret fails, naming the first
\* of docker-server, docker-username, docker-password that is missing or
\* empty; otherwise the wire map has the one key .dockerconfigjson, whose
\* JSON holds auth = base64(username:password) and an email member iff
\* docker-email is present and not empty.
C9_ToWireRegistry ==
    (cType = DockerType /\ cPc \in {"wired", "failed", "round"}) =>
        IF FirstMissing(cEntries) # "none"
        THEN /\ cPc = "failed"
             /\ cWire = Failure(RequiredMessage(FirstMissing(cEntries)))
        ELSE /\ cPc # "failed"
             /\ cWire.err = "none"
             /\ DOMAIN cWire.data = {DockerConfigKey}
             /\ LET doc == cWire.data[DockerConfigKey].json
                IN  /\ doc.kind = "object"
                    /\ doc.auths.kind = "object"
                    /\ Cardinality(doc.auths.entries) = 1
                    /\ \A e \in doc.auths.entries :
                          /\ e.typed
                          /\ e.server = cEntries["docker-server"].txt
                          /\ e.username = cEntries["docker-username"].txt
                          /\ e.password = cEntries["docker-password"].txt
                          /\ e.auth = Base64(e.username \o <<58>> \o e.password)
                          /\ e.hasEmail <=> ~Missing(cEntries, "docker-email")
                          /\ e.hasEmail => e.email = cEntries["docker-email"].txt

\* username "u" and password "u" give auth "dTp1"; the empty docker-email
\* given is not written
C9_Witness ==
    /\ cPc = "wired" /\ cType = DockerType
    /\ Has(cEntries, "docker-email")
    /\ \E e \in cWire.data[DockerConfigKey].json.auths.entries :
          /\ e.username = <<117>> /\ e.password = <<117>>
          /\ e.auth = <<100, 84, 112, 49>>
          /\ ~e.hasEmail

NoWireKey(w) == ~Has(w, DockerConfigKey)

NotJson(w) ==
    /\ Has(w, DockerConfigKey)
    /\ ~Has(w[DockerConfigKey], "json") \/ w[DockerConfigKey].json.kind = "invalid"

\* valid JSON with no registry in it: null, a value that is no object, an
\* object without "auths", "auths" null or {}
AuthsEmptyOrAbsent(w) ==
    /\ Has(w, DockerConfigKey)
    /\ Has(w[DockerConfigKey], "json")
    /\ LET doc == w[DockerConfigKey].json
       IN  \/ doc.kind \in {"null", "scalar"}
           \/ doc.kind = "object" /\ doc.auths.kind \in {"absent", "null"}
           \/ doc.kind = "object" /\ doc.auths.kind = "object" /\ doc.auths.entries = {}

\* valid JSON whose "auths" is neither null nor an object, or holds a
\* registry whose members are not of the JSON type of their field
WrongShape(w) ==
    /\ Has(w, DockerConfigKey)
    /\ Has(w[DockerConfigKey], "json")
    /\ LET doc == w[DockerConfigKey].json
       IN  /\ doc.kind = "object"
           /\ \/ doc.auths.kind = "scalar"
              \/ doc.auths.kind = "object" /\ \E e \in doc.auths.entries : ~e.typed

\* C10, as the specification states it: FromKubernetesData of a
\* docker-registry secret fails in three cases (no .dockerconfigjson key, a
\* value that is not valid JSON, auths empty or absent) and succeeds in
\* every other case.
C10_FromWireFailsInThreeCases ==
    (cType = DockerType /\ cPc = "parsed") =>
        (cBack.err # "none" <=>
            (NoWireKey(cWire.data) \/ NotJson(cWire.data) \/ AuthsEmptyOrAbsent(cWire.data)))

\* C10, amended: it fails, returning no entries, in those three cases and
\* also when the value is valid JSON of the wrong shape; it succeeds in every
\* other case.
C10_FromWireFailsInFourCases ==
    (cType = DockerType /\ cPc = "parsed") =>
        /\ cBack.err # "none" <=>
              (\/ NoWireKey(cWire.data)
               \/ NotJson(cWire.data)
               \/ AuthsEmptyOrAbsent(cWire.data)
               \/ WrongShape(cWire.data))
        /\ cBack.err # "none" => cBack.data = EmptyMap
        /\ cBack.err = "none" =>
              {"docker-server", "docker-username", "docker-password"} \subseteq DOMAIN cBack.data

\* a wire value with two registries, one of them with a member of the wrong
\* JSON type, is refused
C10_Witness ==
    /\ cType = DockerType /\ cPc = "parsed"
    /\ WrongShape(cWire.data)
    /\ Cardinality(cWire.data[DockerConfigKey].json.auths.entries) = 2
    /\ cBack.err # "none"

\* C11: two conversions of the same wire value of a docker-registry secret
\* return the same docker-server, docker-username and docker-password, also
\* when the value holds several registries under auths.
C11_SelectionIsDeterministic ==
    (cType = DockerType /\ cPc = "twice" /\ cBack.err = "none" /\ cAgain.err = "none") =>
        \A k \in {"docker-server", "docker-username", "docker-password"} :
            cBack.data[k] = cAgain.data[k]

\* C12: for Opaque and every type string other than
\* kubernetes.io/dockerconfigjson (tls, basic-auth, ssh-auth, custom strings)
\* ToKubernetesData and FromKubernetesData return the entry map they are
\* given, unchanged, and never fail.
C12_IdentityForOtherTypes ==
    cType # DockerType =>
        /\ cPc # "failed"
        /\ cPc \in {"wired", "round"} => cWire = Success(cEntries)
        /\ cPc \in {"round", "parsed", "twice"} => cBack = Success(cWire.data)
        /\ cPc = "twice" => cAgain = Success(cWire.data)

\* entries of a custom type that lack docker-password and carry another key
\* have gone to the wire and back unchanged
C12_Witness ==
    /\ cType = CustomType /\ cPc = "round"
    /\ Has(cEntries, "docker-server") /\ ~Has(cEntries, "docker-password")
    /\ Has(cEntries, "note")
    /\ cWire = Success(cEntries)
    /\ cBack = Success(cEntries)

(***************************************************************************)
(* Properties of the diff (specification DiffSpec).                        *)
(***************************************************************************)
EntryDiffDone == dPc \in {"local", "remote"}

UnionKeys == DOMAIN dA \cup DOMAIN dB

\* the keys the specification calls different
DifferentKeys ==
    {k \in UnionKeys : k \notin DOMAIN dA \/ k \notin DOMAIN dB \/ dA[k] # dB[k]}

\* the keys whose values a run printed
Flagged(lines) == {lines[i].key : i \in {j \in DOMAIN lines : lines[j].kind = "value"}}

\* the keys whose key line a run printed
Reported(lines) == {lines[i].key : i \in {j \in DOMAIN lines : lines[j].kind = "key"}}

IsKeyLine(line) == line.kind = "key"

\* C13: the difference count of the entry diff, compareSecretsLocal and
\* compareSecretsRemote alike, is the number of keys of the union that are
\* absent from A, absent from B or present in both with unequal values; it
\* is zero for identical maps.
C13_CountIsDifferentKeys ==
    EntryDiffDone =>
        /\ dOut.differences = Cardinality(DifferentKeys)
        /\ dA = dB => dOut.differences = 0

\* local against remote: one key only onsite, one only remote, one on both
\* sides with unequal values, counted as three
C13_Witness ==
    /\ dPc = "remote"
    /\ \E k1, k2, k3 \in UnionKeys :
          /\ k1 \notin DOMAIN dB
          /\ k2 \notin DOMAIN dA
          /\ k3 \in DOMAIN dA \cap DOMAIN dB /\ dA[k3] # dB[k3]
    /\ dOut.differences = 3

\* C14: diffing (A, B) and diffing (B, A) flag the same keys as different
\* and return the same count; the key lines are the same and each flagged key
\* shows the same two renderings, under exchanged sides.
C14_DetectionIsSymmetric ==
    EntryDiffDone =>
        /\ dOut.differences = dSwap.differences
        /\ Flagged(dOut.lines) = Flagged(dSwap.lines)
        /\ Flagged(dOut.lines) = DifferentKeys
        /\ SelectSeq(dOut.lines, IsKeyLine) = SelectSeq(dSwap.lines, IsKeyLine)
        /\ Len(dOut.lines) = Len(dSwap.lines)
        /\ \A i \in DOMAIN dOut.lines :
              dOut.lines[i].kind = "value" =>
                  \E j \in {i - 1, i + 1} \cap DOMAIN dSwap.lines :
                      /\ dSwap.lines[j].kind = "value"
                      /\ dSwap.lines[j].key = dOut.lines[i].key
                      /\ dSwap.lines[j].text = dOut.lines[i].text
                      /\ IF dPc = "local"
                         THEN dSwap.lines[j].label = dOut.lines[i].label
                         ELSE dSwap.lines[j].label # dOut.lines[i].label

\* a key that only A holds and a key that only B holds are flagged both ways
\* round, and the two outputs differ
C14_Witness ==
    /\ dPc = "local"
    /\ (DOMAIN dA) \ (DOMAIN dB) # {}
    /\ (DOMAIN dB) \ (DOMAIN dA) # {}
    /\ dOut.differences = 2 /\ dSwap.differences = 2
    /\ dOut.lines # dSwap.lines

\* C18: in both diff modes and whatever the verbose flag, the key line of
\* every key of the union is printed, and the pair of values is printed for
\* a key exactly when the key is different.
C18_EveryKeyReported ==
    EntryDiffDone =>
        /\ Reported(dOut.lines) = UnionKeys
        /\ Flagged(dOut.lines) = DifferentKeys

\* the number of characters of UTF-8 text: the bytes that start one
CharCount(v) == Cardinality({i \in DOMAIN v : v[i] < 128 \/ v[i] >= 192})

\* the first n characters of UTF-8 text
FirstChars(v, n) ==
    LET ends == {j \in 0..Len(v) : CharCount(SubSeq(v, 1, j)) <= n}
    IN  SubSeq(v, 1, CHOOSE j \in ends : \A m \in ends : m <= j)

\* the rendering of a present value as the specification states it, between
\* the brackets that formatValue puts round every present value
StatedRendering(v, verbose) ==
    Bracketed(IF verbose \/ CharCount(v) <= TruncateAt
              THEN v
              ELSE FirstChars(v, TruncateAt) \o Ellipsis)

\* the entry map a value line speaks of
SideOf(line) == IF line.label \in {"test", "onsite"} THEN dA ELSE dB

\* C19: a printed value is rendered in full in verbose mode and, otherwise,
\* as its first 10 characters followed by an ellipsis when it is longer than
\* 10 characters, unchanged when not; a value absent on one side is rendered
\* as "missing", which no present value is rendered as.
C19_RenderingOfValues ==
    EntryDiffDone =>
        \A i \in DOMAIN dOut.lines :
            dOut.lines[i].kind = "value" =>
                LET line == dOut.lines[i]
                IN  IF line.key \in DOMAIN SideOf(line)
                    THEN /\ line.text = StatedRendering(SideOf(line)[line.key].txt, dVerbose)
                         /\ line.text # MissingText
                    ELSE line.text = MissingText

SetsDiffed == dPc = "localsets" /\ dOut.err = "none"

\* the branch for two single files is not taken
MultiMode == ~(Len(dSet1) = 1 /\ Len(dSet2) = 1)

OnlyIn1 == Names(dSet1) \ Names(dSet2)

OnlyIn2 == Names(dSet2) \ Names(dSet1)

Paired == Names(dSet1) \cap Names(dSet2)

\* the entry keys of the paired names, and those of them that are different
PairedKeys ==
    {<<n, k>> \in Paired \X KeyInputs :
        k \in DOMAIN ByName(dSet1, n).data \cup DOMAIN ByName(dSet2, n).data}

PairedDifferent ==
    {nk \in PairedKeys :
        LET a == ByName(dSet1, nk[1]).data
            b == ByName(dSet2, nk[1]).data
        IN  nk[2] \notin DOMAIN a \/ nk[2] \notin DOMAIN b \/ a[nk[2]] # b[nk[2]]}

CountLines(lines, kind) == Cardinality({i \in DOMAIN lines : lines[i].kind = kind})

\* every name that only set1 holds is reported once as only in path1, adds
\* one to the total and none of its keys is printed
OnlyInSet1CountsOne ==
    /\ \A n \in OnlyIn1 :
          Cardinality({i \in DOMAIN dOut.lines : dOut.lines[i] = OnlyLine(n, "path1")}) = 1
    /\ CountLines(dOut.lines, "key") = Cardinality(PairedKeys)
    /\ dOut.differences
          = Cardinality(OnlyIn1) + Cardinality(OnlyIn2) + Cardinality(PairedDifferent)

\* C16, as the specification states it: in local-vs-local diff a secret
\* named x that set1 holds and set2 does not is reported as only in set1 and
\* adds exactly one to the total, with no enumeration of its keys, for every
\* size of the two sets.
C16_OnlyInSet1ForEverySize ==
    SetsDiffed => OnlyInSet1CountsOne

\* C16, amended: this holds unless each set holds exactly one secret; then
\* the entries of the two secrets are diffed directly, whatever their names.
C16_OnlyInSet1UnlessSingleFiles ==
    SetsDiffed =>
        /\ MultiMode => OnlyInSet1CountsOne
        /\ ~MultiMode =>
              LET single == compareSecretsLocal(dSet1[1].namespace, dSet2[1].namespace,
                                                dSet1[1].data, dSet2[1].data, dVerbose)
              IN  /\ dOut.lines = single.lines \o <<TotalLine(single.differences)>>
                  /\ CountLines(dOut.lines, "only") = 0

\* set1 holds x (two keys) and y, set2 holds only y: x is reported as only
\* in path1 and counts one
C16_Witness ==
    /\ SetsDiffed
    /\ Len(dSet1) = 2 /\ Len(dSet2) = 1
    /\ OnlyIn1 = {"x"} /\ ByName(dSet1, "x").data = DataTwo
    /\ PairedDifferent = {}
    /\ dOut.differences = 1
    /\ CountLines(dOut.lines, "only") = 1

\* C17: in multi-secret local-vs-local diff the secrets are paired by name
\* only, also across namespaces, and the total is the number of names on one
\* side only plus the number of different keys of the paired names.
C17_PairedByNameOnly ==
    (SetsDiffed /\ MultiMode) =>
        /\ {dOut.lines[i].key : i \in {j \in DOMAIN dOut.lines : dOut.lines[j].kind = "only"}}
              = OnlyIn1 \cup OnlyIn2
        /\ CountLines(dOut.lines, "key") = Cardinality(PairedKeys)
        /\ CountLines(dOut.lines, "value") = 2 * Cardinality(PairedDifferent)
        /\ dOut.differences
              = Cardinality(OnlyIn1) + Cardinality(OnlyIn2) + Cardinality(PairedDifferent)
        /\ dOut.lines[Len(dOut.lines)] = TotalLine(dOut.differences)

\* x of namespace test is paired with x of namespace live, y is on one side
\* only: two different keys and one name
C17_Witness ==
    /\ SetsDiffed /\ MultiMode
    /\ \E i \in DOMAIN dSet1, j \in DOMAIN dSet2 :
          /\ dSet1[i].name = "x" /\ dSet2[j].name = "x"
          /\ dSet1[i].namespace = "test" /\ dSet2[j].namespace = "live"
    /\ Cardinality(Names(dSet1)) = Len(dSet1) /\ Cardinality(Names(dSet2)) = Len(dSet2)
    /\ OnlyIn2 = {"y"}
    /\ Cardinality(PairedDifferent) = 3
    /\ dOut.differences = 4

\* the lines of one kind come with their keys in strictly ascending order
AscendingKeys(lines, kind) ==
    \A i, j \in DOMAIN lines :
        (i < j /\ lines[i].kind = kind /\ lines[j].kind = kind)
            => Less(lines[i].key, lines[j].key)

KeysOfKind(lines, kind) ==
    {lines[i].key : i \in {j \in DOMAIN lines : lines[j].kind = kind}}

\* the stringData lines of one secret of a manifest
StringDataOf(lines, secret) ==
    SelectSeq(lines, LAMBDA line : /\ line.kind = "stringData"
                                   /\ line.name = secret.name
                                   /\ line.namespace = secret.namespace)

\* C15: keys are emitted in strictly ascending lexical order, each once: the
\* entry keys in both diff modes, the secret names in multi-secret
\* local-vs-local diff, the keys of each manifest's stringData block and the
\* keys written by WriteSecretFile.
C15_KeysAscending ==
    /\ EntryDiffDone =>
          /\ AscendingKeys(dOut.lines, "key")
          /\ AscendingKeys(dSwap.lines, "key")
          /\ dPc = "local" => CountLines(dOut.lines, "key") = Cardinality(UnionKeys)
    /\ (SetsDiffed /\ ~MultiMode) => AscendingKeys(dOut.lines, "key")
    /\ (SetsDiffed /\ MultiMode) =>
          /\ AscendingKeys(dOut.lines, "only")
          /\ CountLines(dOut.lines, "only") = Cardinality(OnlyIn1 \cup OnlyIn2)
    /\ dPc = "manifest" =>
          \A n \in DOMAIN dSet1 :
              LET block == StringDataOf(dOut.lines, dSet1[n])
              IN  /\ AscendingKeys(block, "stringData")
                  /\ block # <<>> =>
                        /\ KeysOfKind(block, "stringData")
                              = IF dSet1[n].type = DockerType THEN {DockerConfigKey}
                                ELSE DOMAIN dSet1[n].data
                        /\ Len(block) = Cardinality(KeysOfKind(block, "stringData"))
    /\ dPc = "written" =>
          /\ AscendingKeys(dOut.lines, "entry")
          /\ KeysOfKind(dOut.lines, "entry") = DOMAIN dSet1[1].data
          /\ CountLines(dOut.lines, "entry") = Cardinality(DOMAIN dSet1[1].data)

\* a file of type tls written with the key K before the key KL, of which K
\* is a prefix
C15_Witness ==
    /\ dPc = "written"
    /\ dSet1[1].type = TlsType
    /\ Len(dOut.lines) = 3
    /\ dOut.lines[1] = [kind |-> "type", alias |-> "tls"]
    /\ dOut.lines[2].key = "K" /\ dOut.lines[3].key = "KL"

(***************************************************************************)
(* Properties of the parser (specification ParseSpec).                     *)
(***************************************************************************)
\* the lines that are neither blank nor a comment
EntryLines ==
    {i \in DOMAIN pContent :
        TrimSpace(pContent[i]) # <<>> /\ ~HasPrefix(TrimSpace(pContent[i]), Hash)}

\* those of them without "="
LinesWithoutEquals == {i \in EntryLines : \A j \in DOMAIN pContent[i] : pContent[i][j] # 61}

FirstEquals(line) == CHOOSE i \in DOMAIN line : line[i] = 61 /\ \A j \in 1..(i - 1) : line[j] # 61

\* key and value of a line cut at its first "="
StatedKey(line) ==
    LET t == TrimSpace(line) IN NameOf(TrimSpace(SubSeq(t, 1, FirstEquals(t) - 1)))

StatedValue(line) ==
    LET t == TrimSpace(line)
    IN  Text(Unquote(TrimSpace(SubSeq(t, FirstEquals(t) + 1, Len(t)))))

\* C20: parsing fails at the first line, neither blank nor a comment, that
\* holds no "=": the error names the number and the content of the line and
\* no entries are returned; otherwise every such line is cut at its first
\* "=" only, and the value keeps every further "=".
C20_LineWithoutEqualsFails ==
    pPc = "parsed" =>
        IF LinesWithoutEquals # {}
        THEN LET first == CHOOSE i \in LinesWithoutEquals :
                              \A j \in LinesWithoutEquals : i <= j
             IN  /\ pOut.err = InvalidLine(first, TrimSpace(pContent[first]))
                 /\ pOut.data = EmptyMap
        ELSE /\ pOut.err = NoParseError
             /\ DOMAIN pOut.data = {StatedKey(pContent[i]) : i \in EntryLines}
             /\ \A i \in EntryLines :
                   (\A j \in EntryLines :
                        j > i => StatedKey(pContent[j]) # StatedKey(pContent[i]))
                       => pOut.data[StatedKey(pContent[i])] = StatedValue(pContent[i])

\* the line K=v=w has given the key K the value v=w
C20_Witness ==
    /\ pPc = "parsed"
    /\ Len(pContent) = 2
    /\ pContent[2] = <<75, 61, 118, 61, 119>>
    /\ pOut.err = NoParseError
    /\ pOut.data["K"] = Text(<<118, 61, 119>>)

\* the type that a line declares, <<>> when it is no type directive
Directive(line) == extractTypeFromComment(TrimSpace(line))

NonBlankLines == {i \in DOMAIN pContent : TrimSpace(pContent[i]) # <<>>}

ParsedWithoutError == pPc = "parsed" /\ pOut.err = NoParseError

\* C21, as the specification states it: the directive "# type = <value>" is
\* the type declaration when it is the first non-blank line of the plaintext,
\* whatever blank lines come before it; it never produces an entry; without
\* it the type is Opaque.
C21_DirectiveOnFirstNonBlankLine ==
    ParsedWithoutError =>
        /\ DOMAIN pOut.data = {StatedKey(pContent[i]) : i \in EntryLines}
        /\ IF NonBlankLines # {}
              /\ Directive(pContent[CHOOSE i \in NonBlankLines :
                                        \A j \in NonBlankLines : i <= j]) # <<>>
           THEN pOut.type
                  = mapSecretType(NameOf(Directive(
                        pContent[CHOOSE i \in NonBlankLines : \A j \in NonBlankLines : i <= j])))
           ELSE pOut.type = OpaqueType

\* C21, amended: the directive is the type declaration when it is the very
\* first line of the plaintext; after any other line, a blank one included,
\* it is an ordinary comment and the type is Opaque.  It never produces an
\* entry.
C21_DirectiveOnFirstLine ==
    ParsedWithoutError =>
        /\ DOMAIN pOut.data = {StatedKey(pContent[i]) : i \in EntryLines}
        /\ IF pContent # <<>> /\ Directive(pContent[1]) # <<>>
           THEN pOut.type = mapSecretType(NameOf(Directive(pContent[1])))
           ELSE pOut.type = OpaqueType

\* "#type = docker-registry" on the first line, then K=v
C21_Witness ==
    /\ ParsedWithoutError
    /\ Len(pContent) = 2
    /\ Directive(pContent[1]) = Bytes("docker-registry")
    /\ pOut.type = DockerType
    /\ DOMAIN pOut.data = {"K"}


\* a value made of parts was loaded
ValueLoaded == pPc = "parsed" /\ pGiven.kind = "value"

\* what a part stands for: its text, or the value of the name, empty when
\* the name is not set
Substituted(segment, env) ==
    IF Has(segment, "lit") THEN segment.lit
    ELSE IF Has(segment, "braced")
    THEN (IF segment.braced \in DOMAIN env THEN env[segment.braced] ELSE <<>>)
    ELSE (IF segment.bare \in DOMAIN env THEN env[segment.bare] ELSE <<>>)

\* C22: LoadSecretFile replaces every ${NAME} and $NAME of a value by the
\* value of NAME in the environment, by nothing when NAME is not set, leaves
\* the text between the references and the text it put in as they are, and
\* reports no error.
C22_EveryReferenceReplacedOnce ==
    ValueLoaded =>
        /\ pLoaded.err = "none"
        /\ pLoaded.data =
               [key \in {"L"} |->
                   Text(Flatten([i \in DOMAIN pGiven.segments |->
                                    Substituted(pGiven.segments[i], pEnv)]))]

\* ${A}$B was loaded where A holds "$B" and B holds "w": the value is "$Bw"
C22_Witness ==
    /\ ValueLoaded
    /\ pGiven.segments = <<[braced |-> NameA], [bare |-> NameB]>>
    /\ pEnv = [n \in {NameA, NameB} |-> IF n = NameA THEN <<36, 66>> ELSE <<119>>]
    /\ pLoaded.data["L"] = Text(<<36, 66, 119>>)


\* the file that WriteSecretFile wrote was loaded
WrittenLoaded == pPc = "parsed" /\ pGiven.kind = "secret"

\* C23: LoadSecretFile of the file that WriteSecretFile wrote for a canonical
\* type and an entry map returns without error, with the same type and, for
\* every key, exactly the value that was written.
C23_WrittenFileLoadsBack ==
    WrittenLoaded =>
        /\ pLoaded.err = "none"
        /\ pLoaded.type = pGiven.type
        /\ pLoaded.data = pGiven.data


\* the loop of upload is over and the summary was printed
BatchDone == summaries # <<>>

\* the keys of processed secret k whose local and remote values differ, a
\* remote secret that was not fetched holding no key
DifferingKeys(k) ==
    {key \in DOMAIN log[k].onsite \cup DOMAIN log[k].remote :
        \/ key \notin DOMAIN log[k].onsite
        \/ key \notin DOMAIN log[k].remote
        \/ log[k].onsite[key] # log[k].remote[key]}

\* the differences of processed secret k as upload counts them: one for a
\* secret whose fetch failed, the differing keys of the others
CountedDifferences(k) ==
    IF log[k].fetch # "none" THEN 1 ELSE Cardinality(DifferingKeys(k))

RECURSIVE SumOver(_, _)
\* the sum of f[k] for the k in S
SumOver(f, S) ==
    IF S = {} THEN 0
    ELSE LET k == CHOOSE x \in S : TRUE IN f[k] + SumOver(f, S \ {k})

\* C24: at the end of a batch secretsChanged is the number of processed
\* secrets with at least one differing key and keysChanged is the sum of the
\* numbers of differing keys; secretsChanged exceeds neither keysChanged nor
\* the number of secrets, and both are zero iff every secret matched.
C24_CountersAreDifferingKeys ==
    BatchDone =>
        LET counts == [k \in DOMAIN log |-> Cardinality(DifferingKeys(k))]
            done == summaries[1]
        IN  /\ done.secretsChanged = Cardinality({k \in DOMAIN log : counts[k] >= 1})
            /\ done.keysChanged = SumOver(counts, DOMAIN log)
            /\ done.secretsChanged <= done.keysChanged
            /\ done.secretsChanged <= Len(secrets)
            /\ (done.secretsChanged = 0 /\ done.keysChanged = 0)
                   <=> \A k \in DOMAIN log : log[k].fetch = "none" /\ counts[k] = 0

\* C24, amended: the same, a secret whose remote counterpart could not be
\* fetched (missing or any other failure) counting as exactly one difference
\* whatever its keys.
C24_CountersAreCountedDifferences ==
    BatchDone =>
        LET counts == [k \in DOMAIN log |-> CountedDifferences(k)]
            done == summaries[1]
        IN  /\ Len(log) = Len(secrets)
            /\ done.secretsChanged = Cardinality({k \in DOMAIN log : counts[k] >= 1})
            /\ done.keysChanged = SumOver(counts, DOMAIN log)
            /\ done.secretsChanged <= done.keysChanged
            /\ done.secretsChanged <= Len(secrets)
            /\ (done.secretsChanged = 0 /\ done.keysChanged = 0)
                   <=> \A k \in DOMAIN log : log[k].fetch = "none" /\ DifferingKeys(k) = {}

\* a batch of two secrets: one of two keys that was not fetched, one fetched
\* with three differing keys; secretsChanged is 2 and keysChanged is 4
C24_Witness ==
    /\ BatchDone
    /\ Len(log) = 2
    /\ \E k \in DOMAIN log : log[k].fetch # "none" /\ log[k].localKeys = 2
    /\ \E k \in DOMAIN log : log[k].fetch = "none" /\ Cardinality(DifferingKeys(k)) = 3
    /\ summaries[1].secretsChanged = 2
    /\ summaries[1].keysChanged = 4


\* the processed secrets for which secretWrite reached the store client
StoreWrites == {k \in DOMAIN log : log[k].called /\ log[k].writeCalls # <<>>}

\* C26: a store write issues one Get and then exactly one mutating call,
\* Create when the secret does not exist remotely and Update when it does;
\* when the Get fails otherwise than by not-found, the write reports an error
\* and issues no Create.
C26_GetThenCreateOrUpdate ==
    \A k \in StoreWrites :
        LET issued == log[k].writeCalls
        IN  /\ Len(issued) = 2
            /\ issued[1].op = "Get"
            /\ issued[2].op \in {"Create", "Update"}
            /\ log[k].getFailed =>
                   /\ log[k].failure # "none"
                   /\ issued[2].op # "Create"
            /\ ~log[k].getFailed =>
                   (issued[2].op = "Create" <=> ~log[k].existed)


\* C27: in the diff of two sets of which one is not a single file, every
\* secret takes part in the comparison even when its set holds another
\* secret of the same name: when a secret of set1 and a secret of set2 have
\* one name and different entries, the reported total is not zero.
C27_EveryDuplicateCompared ==
    (SetsDiffed /\ MultiMode) =>
        \A i \in DOMAIN dSet1, j \in DOMAIN dSet2 :
            (dSet1[i].name = dSet2[j].name /\ dSet1[i].data # dSet2[j].data)
                => dOut.differences > 0


\* the secrets of this invocation, a diff that follows an upload, that the
\* upload wrote without error and whose fetch met no failure of the cluster
\* connection
DiffedAfterWrite ==
    {k \in DOMAIN log :
        /\ log[k].id \in WrittenWithoutError(prior)
        /\ log[k].fetch \notin {Transport, NoConfig}}

\* C25: after an upload with -doit wrote a secret without error, the diff
\* that follows at once on the unchanged local secret fetches the secret and
\* reports no differing key for it, whatever its type and whatever the
\* cluster held before.
C25_UploadConverges ==
    \A k \in DiffedAfterWrite :
        /\ log[k].fetch = "none"
        /\ log[k].differences = 0

====
